---- MODULE Spec2Model ----
(***************************************************************************)
(* Capture pipeline and store of local-text-history.                       *)
(*                                                                         *)
(* Time is counted in ticks of 500 ms (the rename window); a unix second   *)
(* is TicksPerSec ticks.  Paths are strings: sequences of characters, with *)
(* a run of characters that nothing looks into kept as one element.  File  *)
(* contents are sequences of bytes.                                        *)
(***************************************************************************)
EXTENDS Integers, Sequences, FiniteSets, TLC

VARIABLES
    \* ---- store (internal/db) ----
    files,          \* table files: set of [id, path, created, updated]
    snapshots,      \* table snapshots: set of [id, file_id, content, size, hash, timestamp]
    renames,        \* table renames: set of [id, old_file_id, new_file_id, old_path, new_path, timestamp]
    nextID,         \* source of time-ordered identifiers (newUUIDv7)
    clock,          \* wall clock in ticks
    \* ---- history of store calls (observation only) ----
    lastCall,       \* the store call that returned last: its items and results, the snapshots
                    \* it trimmed, the rows it deleted with a file, the error of the commit of
                    \* a batch, and the parity of the number of save calls made so far
    prevSave,       \* per path: content and outcome of the latest save call
    written,        \* per stored snapshot a caller inserted: [id, content], the bytes given to the save
    idType,         \* declared type of files.id: "INTEGER" (legacy schema) or "TEXT"
    opening,        \* the calls of New (observation only): [n, before, err]
    \* ---- environment ----
    fs,             \* the watched file system: path -> [kind, data]
    phase,          \* "running", "done" (shutdown channel closed), "closing" (closeCh closed,
                    \* Close waits for the scans), "closed" (Close returned)
    \* ---- configuration and calls of the filter functions ----
    watchSets,      \* Watcher.watchSets: the watch sets as New keeps them
    probe,          \* the latest direct call of a filter or capture function, with its result
    notified,       \* the jobs whose OnSnapshot call has run, in the order the calls ran
    \* ---- bulk scanner (internal/watcher/scanner.go) ----
    scanningDirs,   \* Watcher.scanningDirs: [made, roots]; made is false for the nil map
    scans,          \* the scanExistingFiles goroutines: [root, pc, todo, called, cut]
    \* ---- watcher (internal/watcher) ----
    timers,         \* Watcher.timers: path -> deadline of the timer it refers to, or NoTimer
    armed,          \* timers the runtime will still fire: path -> deadlines, ascending
    callbacks,      \* timer callbacks that ran takeSnapshot and wait for w.mu: path -> count
    sending,        \* goroutines blocked in "w.saveCh <- job": set of jobs
    pendingRenames, \* Watcher.pendingRenames: path -> timestamp, or NoTime
    sweeps,         \* scheduled clean-ups of pendingRenames: set of [path, at]
    saveCh,         \* Watcher.saveCh: sequence of jobs
    nextJob,        \* number of the next job (identifies jobs in the history)
    events,         \* number of filesystem events handled
    \* ---- save worker ----
    useBatch,       \* whether a batch saver is set (SetBatchSaver)
    wPc,            \* position of saveWorker
    wFinal,         \* saveWorker took the shutdown branch
    wSnapshots,     \* processBatch: the snapshot jobs of the batch
    wRenames,       \* processBatch: the rename jobs of the batch
    wIdx,           \* index of the item (single saver) or rename being saved
    attempt,        \* attempts made for the current save
    wake,           \* end of the current time.Sleep
    savedSlice,     \* processSnapshotBatch: savedSlice
    errSlice,       \* processSnapshotBatch: errSlice
    writers,        \* goroutines inside a store write call
    faultsLeft,     \* store calls the engine may still fail
    \* ---- history (observation only) ----
    log,            \* notifications and failure log lines, in order
    attempts,       \* every store call made for a batch or rename: [jobs, n, locked]
    committed,      \* numbers of the jobs whose snapshot a commit made durable
    drained,        \* numbers of the jobs that were on saveCh when the worker saw the shutdown
    handled,        \* the filesystem event handled last: [op, name]
    burst           \* per path: the latest burst of save requests: the time of its last
                    \* request, and when each timer that fired in it was set

storeVars == <<files, snapshots, renames, nextID>>
obsStoreVars == <<lastCall, prevSave, written>>
envVars == <<fs, phase>>
scanVars == <<scanningDirs, scans>>
schemaVars == <<idType, opening>>
cfgVars == <<watchSets, probe, notified, scanVars, schemaVars>>
ingestVars == <<timers, armed, callbacks, sending, pendingRenames, sweeps, saveCh, nextJob, events,
               handled, burst>>
workerVars == <<useBatch, wPc, wFinal, wSnapshots, wRenames, wIdx, attempt, wake,
                savedSlice, errSlice, writers, faultsLeft, log, attempts, committed, drained>>
vars == <<files, snapshots, renames, nextID, clock, lastCall, prevSave, written, fs, phase,
          watchSets, probe, notified, scanningDirs, scans, idType, opening,
          timers, armed, callbacks, sending, pendingRenames, sweeps, saveCh, nextJob, events,
          handled, burst,
          useBatch, wPc, wFinal, wSnapshots, wRenames, wIdx, attempt, wake,
          savedSlice, errSlice, writers, faultsLeft, log, attempts, committed, drained>>

----------------------------------------------------------------------------
\* Bounds of the model

MaxClock == 3          \* ticks explored by the store callers
MaxID == 6             \* identifiers handed out to the store callers
MaxTime == 4           \* ticks explored by the pipeline
MaxEvents == 3         \* filesystem events handled
MaxFaults == 2         \* statements the engine fails
MaxJobs == 2           \* jobs the producers queue
MaxOpens == 2          \* calls of New on one database
MaxScans == 3          \* scan goroutines started
QueueCap == 2          \* capacity of saveCh (saveQueueSize, 10000 in the program)

\* Program constants
renameTimeout == 1                      \* 500 ms, the unit of time
TicksPerSec == 2 * renameTimeout
saveRetryCount == 3
saveRetryDelay == TicksPerSec           \* 1 s
binaryCheckSize == 8192

----------------------------------------------------------------------------
\* Paths, contents, configuration

Separator == "/"

DirR == <<"/", "R">>
DirS == <<"/", "R", "/", "s">>

PathA == <<"/", "R", "/", "a", ".txt">>
PathB == <<"/", "R", "/", "s", "/", "b", ".txt">>
PathT == <<"/", "R", "/", "t", ".tmp">>
Paths == {PathA, PathB, PathT}
StorePaths == {PathA, PathB}

\* config.WatchSet: the configuration New is given.  An exclude pattern
\* "**/x/**" is kept as the name x.
WatchSets ==
    << [name |-> "docs", dirs |-> {DirR}, extSet |-> {<<".txt">>},
        excludePatterns |-> {<<"node_modules">>}, debounceSec |-> 1,
        maxFileSize |-> 2, maxSnapshots |-> 2],
       [name |-> "scratch", dirs |-> {DirS}, extSet |-> {},
        excludePatterns |-> {}, debounceSec |-> 1,
        maxFileSize |-> 2, maxSnapshots |-> 0] >>

TextX == <<1>>
TextY == <<2>>
StoreContents == {TextX, TextY}

----------------------------------------------------------------------------
\* Filter and classifier: internal/watcher/watcher.go, filter.go

Min(a, b) == IF a < b THEN a ELSE b

HasPrefix(str, prefix) == Len(prefix) <= Len(str) /\ SubSeq(str, 1, Len(prefix)) = prefix

HasSuffix(str, suffix) ==
    Len(suffix) <= Len(str) /\ SubSeq(str, Len(str) - Len(suffix) + 1, Len(str)) = suffix

\* a dir kept as the configuration gives it (variant)
configuredDir(dir) == dir

\* New: a dir is kept with a trailing separator
normalizedDir(dir) == IF HasSuffix(dir, <<Separator>>) THEN dir ELSE dir \o <<Separator>>

\* New: the watchSetRuntime values made from the configuration
runtimes(cfg) ==
    [i \in DOMAIN cfg |-> [cfg[i] EXCEPT !.dirs = {normalizedDir(d) : d \in cfg[i].dirs}]]

\* findWatchSet that stopped at the first watch set with a matching dir (variant)
findFirstWatchSet(filePath) ==
    LET matches == {i \in DOMAIN watchSets :
                        \E d \in watchSets[i].dirs :
                            HasPrefix(filePath, d) \/ filePath \o <<Separator>> = d}
    IN  IF matches = {} THEN 0 ELSE CHOOSE i \in matches : \A k \in matches : i <= k

\* findWatchSet: index of the watch set with the longest matching dir, 0 for nil.
\* Among dirs of equal length the first watch set wins.
findWatchSet(filePath) ==
    LET matches == {m \in UNION {{<<i, d>> : d \in watchSets[i].dirs} : i \in DOMAIN watchSets} :
                        /\ \/ HasPrefix(filePath, m[2])
                           \/ filePath \o <<Separator>> = m[2]
                        /\ Len(m[2]) > 0}
    IN  IF matches = {} THEN 0
        ELSE LET best == {m \in matches : \A o \in matches : Len(o[2]) <= Len(m[2])}
             IN  (CHOOSE m \in best : \A o \in best : m[1] <= o[1])[1]

\* the characters that stand for a dot and the characters after it
DotChars == {".txt", ".tmp"}

\* filepath.Ext: the suffix from the last dot of the last path element
Ext(filePath) ==
    LET dots == {i \in 1..Len(filePath) :
                    /\ filePath[i] \in DotChars
                    /\ \A j \in i..Len(filePath) : filePath[j] # Separator}
    IN  IF dots = {} THEN <<>>
        ELSE SubSeq(filePath, CHOOSE i \in dots : \A j \in dots : j <= i, Len(filePath))

RECURSIVE Split(_)
\* strings.Split(str, Separator)
Split(str) ==
    IF \E i \in 1..Len(str) : str[i] = Separator
    THEN LET i == CHOOSE k \in 1..Len(str) : str[k] = Separator /\ \A j \in 1..(k - 1) : str[j] # Separator
         IN  <<SubSeq(str, 1, i - 1)>> \o Split(SubSeq(str, i + 1, Len(str)))
    ELSE <<str>>

\* isExcludedBy: "**/x/**" matches the path, or a suffix of its elements, when
\* x is one of the elements of the path: a directory on the path or, with
\* nothing for the closing "/**", the last element
isExcludedBy(filePath, patterns) ==
    LET parts == Split(filePath)
    IN  \E x \in patterns : \E i \in 1..Len(parts) : parts[i] = x

\* shouldTrack with the exclude patterns of every watch set (variant)
shouldTrackAnySet(filePath) ==
    LET i == findWatchSet(filePath)
    IN  /\ i # 0
        /\ (watchSets[i].extSet # {} => Ext(filePath) \in watchSets[i].extSet)
        /\ \A k \in DOMAIN watchSets : ~isExcludedBy(filePath, watchSets[k].excludePatterns)

shouldTrack(filePath) ==
    LET i == findWatchSet(filePath)
    IN  /\ i # 0
        /\ (watchSets[i].extSet # {} => Ext(filePath) \in watchSets[i].extSet)
        /\ ~isExcludedBy(filePath, watchSets[i].excludePatterns)

\* isExcluded: a directory outside every watch set counts as excluded
isExcluded(dirPath) ==
    LET i == findWatchSet(dirPath)
    IN  i = 0 \/ isExcludedBy(dirPath, watchSets[i].excludePatterns)

\* isBinary that looked at every byte (variant)
isBinaryAnywhere(data) == \E i \in 1..Len(data) : data[i] = 0

isBinary(data) ==
    /\ Len(data) # 0
    /\ \E i \in 1..Min(Len(data), binaryCheckSize) : data[i] = 0

\* The retention cap a caller passes for a path (its group's max_snapshots)
CapOf(p) == watchSets[findWatchSet(p)].maxSnapshots

Debounce(p) == watchSets[findWatchSet(p)].debounceSec * TicksPerSec


NoTimer == -1
NoTime == -1

\* ids of the jobs: MaxJobs for the producers of the pipeline, QueueCap + 1
\* for the producers that fill the queue
JobIDs == 1..(MaxJobs + QueueCap)

NoErr == "nil"
ErrLocked == "database is locked"
ErrOther == "disk I/O error"
ErrNoRows == "sql: no rows in result set"
Faults == {ErrLocked, ErrOther}

----------------------------------------------------------------------------
\* Store: internal/db/db.go

sha256sum(data) == <<"sha256", data>>

EncodeAll(data) == <<"zstd", data>>

DecodeAll(blob) == blob[2]

Unix(t) == t \div TicksPerSec

CurrentTx == [files |-> files, snapshots |-> snapshots, renames |-> renames, nextID |-> nextID]

\* A lookup by path that finds no row (variant)
FileByPathMissed(tx, filePath) == {}

FileByPath(tx, path) == {f \in tx.files : f.path = path}

SnapshotsOf(tx, fileID) == {s \in tx.snapshots : s.file_id = fileID}

\* the snapshot of the greatest id among rows (newUUIDv7 is time-ordered)
Newest(rows) == CHOOSE r \in rows : \A q \in rows : q.id <= r.id

\* The rows "ORDER BY timestamp DESC LIMIT n" can return: the statement has
\* no tie-break, so among rows of equal timestamp any may come first.
TopByTimestamp(rows, n) ==
    {K \in SUBSET rows :
        /\ Cardinality(K) = Min(n, Cardinality(rows))
        /\ \A r \in K, s \in rows \ K : r.timestamp >= s.timestamp}

NoID == 0

\* What one save leaves: the transaction state, the two results, and the row it inserted
Outcome(tx, saved, err, row) == [tx |-> tx, saved |-> saved, err |-> err, row |-> row]

\* The limit of the prune of one save: the cap given with the call
\* (SaveSnapshot(path, content, maxSnapshots), TestMaxSnapshots_PerCall)
maxSnapshotsPerCall(maxSnapshots) == maxSnapshots

\* A duplicate check that trimmed the file to its cap before it returned
\* (variant)
SkipAfterPrune(tx, fileID, maxSnapshots) ==
    IF maxSnapshots > 0 /\ Cardinality(SnapshotsOf(tx, fileID)) > maxSnapshots
    THEN [tx EXCEPT !.snapshots = {s \in tx.snapshots :
                        s.file_id # fileID \/ s = Newest(SnapshotsOf(tx, fileID))}]
    ELSE tx

\* "return false, nil" of the duplicate check: no statement has run
Skip(tx, fileID, maxSnapshots) == tx

\* saveSnapshotInTx: the set of results the statement sequence can have.
\* faults is the set of errors the engine may raise in this call.
saveSnapshotInTx(tx, filePath, content, maxSnapshots, now, faults) ==
    LET hash == sha256sum(content)
        existing == FileByPath(tx, filePath)
        found == existing # {}
        fileID == IF found THEN (CHOOSE f \in existing : TRUE).id ELSE tx.nextID
        lastRows == IF found THEN TopByTimestamp(SnapshotsOf(tx, fileID), 1) ELSE {{}}
        tx1 == IF found
               THEN [tx EXCEPT !.files =
                        {IF f.id = fileID THEN [f EXCEPT !.updated = now] ELSE f : f \in tx.files}]
               ELSE [tx EXCEPT !.files = tx.files \cup
                        {[id |-> fileID, path |-> filePath, created |-> now, updated |-> now]},
                     !.nextID = tx.nextID + 1]
        tx2 == [tx1 EXCEPT !.snapshots = tx1.snapshots \cup
                    {[id |-> tx1.nextID, file_id |-> fileID, content |-> EncodeAll(content),
                      size |-> Len(content), hash |-> hash, timestamp |-> now]},
                !.nextID = tx1.nextID + 1]
        pruned == IF maxSnapshotsPerCall(maxSnapshots) > 0
                  THEN {[tx2 EXCEPT !.snapshots = {s \in tx2.snapshots : s.file_id # fileID} \cup K] :
                            K \in TopByTimestamp(SnapshotsOf(tx2, fileID), maxSnapshotsPerCall(maxSnapshots))}
                  ELSE {tx2}
        duplicate(K) == K # {} /\ \E s \in K : s.hash = hash
    IN  {Outcome(tx, FALSE, e, NoID) : e \in faults}                           \* checking existing file
        \cup {Outcome(Skip(tx, fileID, maxSnapshots), FALSE, NoErr, NoID) :
                    K \in {L \in lastRows : duplicate(L)}}
        \cup (IF \E K \in lastRows : ~duplicate(K)
              THEN {Outcome(tx, FALSE, e, NoID) : e \in faults}                \* inserting / updating file
                   \cup {Outcome(tx1, FALSE, e, NoID) : e \in faults}          \* inserting snapshot
                   \cup (IF maxSnapshotsPerCall(maxSnapshots) > 0
                         THEN {Outcome(tx2, FALSE, e, tx1.nextID) : e \in faults} \* pruning old snapshots
                         ELSE {})
                   \cup {Outcome(t, TRUE, NoErr, tx1.nextID) : t \in pruned}
              ELSE {})

\* SaveSnapshot: one transaction for one item; every error path rolls back.
SaveSnapshot(tx, filePath, content, maxSnapshots, now, faults) ==
    {Outcome(tx, FALSE, e, NoID) : e \in faults}                                \* beginning transaction
    \cup {IF o.err # NoErr THEN Outcome(tx, FALSE, o.err, NoID) ELSE o :
            o \in saveSnapshotInTx(tx, filePath, content, maxSnapshots, now, faults)}
    \cup {Outcome(tx, FALSE, e, NoID) : e \in faults}                           \* committing transaction

RECURSIVE BatchItems(_, _, _, _, _)
\* The loop of SaveSnapshotBatch over its items, inside one transaction.
\* budget is the number of statements the engine may still fail.
BatchItems(tx, items, now, faults, budget) ==
    IF items = <<>>
    THEN {[tx |-> tx, saved |-> <<>>, errs |-> <<>>, rows |-> <<>>, cost |-> 0]}
    ELSE UNION {
            {[tx |-> r.tx, saved |-> <<o.saved>> \o r.saved, errs |-> <<o.err>> \o r.errs,
              rows |-> <<o.row>> \o r.rows,
              cost |-> r.cost + (IF o.err # NoErr THEN 1 ELSE 0)] :
                r \in BatchItems(o.tx, Tail(items), now, faults,
                                 IF o.err # NoErr THEN budget - 1 ELSE budget)} :
            o \in saveSnapshotInTx(tx, Head(items).filePath, Head(items).content,
                                   Head(items).maxSnapshots, now,
                                   IF budget > 0 THEN faults ELSE {})}

\* A failed commit that left the statements of its transaction in the
\* database (variant)
CommittedAnyway(tx, inTx) == inTx

\* "defer tx.Rollback()" after a failed tx.Commit(): the database is as it was
\* before the transaction
Uncommitted(tx, inTx) == tx

\* SaveSnapshotBatch: one transaction for all items.  An item's error does not
\* end the transaction; a failed commit rolls everything back.
SaveSnapshotBatch(tx, items, now, faults, budget) ==
    LET n == Len(items)
        inTx == BatchItems(tx, items, now, faults, budget)
        ok(r, i) == r.errs[i] = NoErr /\ r.saved[i]
    IN  {[tx |-> tx, saved |-> [i \in 1..n |-> FALSE], errs |-> [i \in 1..n |-> e],
          rows |-> [i \in 1..n |-> NoID], cost |-> 1, commitErr |-> NoErr,
          inTx |-> [i \in 1..n |-> FALSE]] :
            e \in IF budget > 0 THEN faults ELSE {}}                            \* beginning transaction
        \cup {[tx |-> r.tx, saved |-> r.saved, errs |-> r.errs, rows |-> r.rows, cost |-> r.cost,
               commitErr |-> NoErr, inTx |-> [i \in 1..n |-> ok(r, i)]] : r \in inTx}
        \cup {[tx |-> Uncommitted(tx, r.tx),
               saved |-> [i \in 1..n |-> IF ok(r, i) THEN FALSE ELSE r.saved[i]],
               errs |-> [i \in 1..n |-> IF ok(r, i) THEN e ELSE r.errs[i]],
               rows |-> [i \in 1..n |-> NoID], cost |-> r.cost + 1, commitErr |-> e,
               inTx |-> [i \in 1..n |-> ok(r, i)]] :
                r \in {q \in inTx : q.cost < budget}, e \in faults}             \* committing transaction

RenameOutcome(tx, id, err) == [tx |-> tx, newFileID |-> id, err |-> err]

\* SaveRename: one transaction; every error path rolls back.
SaveRename(tx, oldPath, newPath, now, faults) ==
    LET old == FileByPath(tx, oldPath)
        new == FileByPath(tx, newPath)
        oldFileID == (CHOOSE f \in old : TRUE).id
        newFileID == IF new # {} THEN (CHOOSE f \in new : TRUE).id ELSE tx.nextID
        tx1 == IF new # {} THEN tx
               ELSE [tx EXCEPT !.files = tx.files \cup
                        {[id |-> newFileID, path |-> newPath, created |-> now, updated |-> now]},
                     !.nextID = tx.nextID + 1]
        tx2 == [tx1 EXCEPT !.renames = tx1.renames \cup
                    {[id |-> tx1.nextID, old_file_id |-> oldFileID, new_file_id |-> newFileID,
                      old_path |-> oldPath, new_path |-> newPath, timestamp |-> now]},
                !.nextID = tx1.nextID + 1]
    IN  {RenameOutcome(tx, NoID, e) : e \in faults}
        \cup (IF old = {}
              THEN {RenameOutcome(tx, NoID, ErrNoRows)}                         \* looking up old file
              ELSE {RenameOutcome(tx2, newFileID, NoErr)})

\* Deleting a files row without the rows that reference it (variant)
deleteRowOnly(tx, id) == [tx EXCEPT !.files = {f \in tx.files : f.id # id}]

\* DELETE FROM files WHERE id = ?, with the foreign keys of snapshots and
\* renames declared ON DELETE CASCADE and enforced (_foreign_keys=on)
deleteCascade(tx, id) ==
    [tx EXCEPT !.files = {f \in tx.files : f.id # id},
               !.snapshots = {s \in tx.snapshots : s.file_id # id},
               !.renames = {r \in tx.renames : r.old_file_id # id /\ r.new_file_id # id}]

DeleteOutcome(tx, err) == [tx |-> tx, err |-> err]

\* DeleteFile: one statement; sql.ErrNoRows when no row was affected.
DeleteFile(tx, id, faults) ==
    {DeleteOutcome(tx, e) : e \in faults}                                      \* deleting file
    \cup (IF \E f \in tx.files : f.id = id
          THEN {DeleteOutcome(deleteCascade(tx, id), NoErr)}
          ELSE {DeleteOutcome(tx, ErrNoRows)})

\* GetSnapshot that returned the stored column as it is (variant)
GetSnapshotCompressed(tx, id) ==
    LET found == {s \in tx.snapshots : s.id = id}
    IN  IF found = {} THEN [err |-> ErrNoRows]
        ELSE LET s == CHOOSE r \in found : TRUE
             IN  [err |-> NoErr, ID |-> s.id, FileID |-> s.file_id, Content |-> s.content,
                  Size |-> s.size, Hash |-> s.hash, Timestamp |-> s.timestamp]

\* GetSnapshot: the row of an id with its content decompressed
GetSnapshot(tx, id) ==
    LET found == {s \in tx.snapshots : s.id = id}
    IN  IF found = {} THEN [err |-> ErrNoRows]
        ELSE LET s == CHOOSE r \in found : TRUE
             IN  [err |-> NoErr, ID |-> s.id, FileID |-> s.file_id, Content |-> DecodeAll(s.content),
                  Size |-> s.size, Hash |-> s.hash, Timestamp |-> s.timestamp]

----------------------------------------------------------------------------
\* Callers of the store: the calls a client of internal/db makes, one at a time

\* GetSnapshots: the lists "WHERE file_id = ? ORDER BY timestamp DESC" can
\* return, each row without its content.  The statement names no second
\* column, so rows of equal timestamp come in any order.
GetSnapshots(tx, fileID) ==
    LET rows == SnapshotsOf(tx, fileID)
        n == Cardinality(rows)
        scan(s) == [ID |-> s.id, FileID |-> s.file_id, Size |-> s.size, Hash |-> s.hash,
                    Timestamp |-> s.timestamp]
    IN  {[i \in 1..n |-> scan(q[i])] :
            q \in {r \in [1..n -> rows] :
                      /\ \A i \in 1..n : \A j \in 1..n : r[i] = r[j] => i = j
                      /\ \A i \in 1..(n - 1) : r[i].timestamp >= r[i + 1].timestamp}}

ErrNoMapping == "no mapping for old file_id"
ErrForeignKey == "foreign key integrity check failed after migration"

\* needsSchemaMigration: the declared type of files.id is INTEGER
needsSchemaMigration(type) == type = "INTEGER"

\* The orders in which a SELECT without ORDER BY can return the rows
Orders(rows) ==
    {q \in [1..Cardinality(rows) -> rows] :
        \A i \in 1..Cardinality(rows) : \A j \in 1..Cardinality(rows) : q[i] = q[j] => i = j}

\* the place of a row in a list
PlaceIn(q, row) == CHOOSE i \in 1..Len(q) : q[i] = row

\* A lookup in idMap that found the new id of any file (variant)
idMapAtAny(idMap, oldFileID) == idMap[CHOOSE k \in DOMAIN idMap : TRUE]

\* idMap[sd.oldFileID]
idMapAt(idMap, oldFileID) == idMap[oldFileID]

\* A migration that kept what its transaction had done when a statement failed
\* (variant)
KeepPartial(tx, partial) == partial

\* defer tx.Rollback(): a transaction that did not commit leaves the database
\* as it was
Rollback(tx, partial) == tx

\* What New leaves: the tables, the type of files.id, the error
OpenOutcome(tx, type, err) == [tx |-> tx, idType |-> type, err |-> err]

\* PRAGMA foreign_key_check: the rows that refer to a file that does not exist
ForeignKeyViolations(tx) ==
    {s \in tx.snapshots : \A f \in tx.files : f.id # s.file_id}
    \cup {r \in tx.renames : \A f \in tx.files : f.id # r.old_file_id}
    \cup {r \in tx.renames : \A f \in tx.files : f.id # r.new_file_id}

\* The tables after the statements of the migration, for the orders in which
\* the two SELECTs returned the legacy rows
MigratedTables(tx, fileRows, snapshotRows) ==
    LET idMap == [old \in {f.id : f \in tx.files} |->
                    tx.nextID + PlaceIn(fileRows, CHOOSE g \in tx.files : g.id = old) - 1]
        first == tx.nextID + Len(fileRows)
    IN  [files |-> {[id |-> idMap[f.id], path |-> f.path, created |-> f.created,
                     updated |-> f.updated] : f \in tx.files},
         snapshots |-> {[id |-> first + PlaceIn(snapshotRows, s) - 1,
                         file_id |-> idMapAt(idMap, s.file_id), content |-> s.content,
                         size |-> s.size, hash |-> s.hash, timestamp |-> s.timestamp] :
                            s \in tx.snapshots},
         renames |-> tx.renames,
         nextID |-> first + Len(snapshotRows)]

\* migrateIfNeeded: the set of results it can have.  faults is the set of
\* errors the engine may raise at a statement.
migrateIfNeeded(tx, type, faults) ==
    IF ~needsSchemaMigration(type)
    THEN {OpenOutcome(tx, type, NoErr)}
         \cup {OpenOutcome(tx, type, e) : e \in faults}                      \* reading table info
    ELSE LET dropped == [tx EXCEPT !.files = {}, !.snapshots = {}]
             unmapped == \E s \in tx.snapshots : \A f \in tx.files : f.id # s.file_id
         IN  {OpenOutcome(tx, type, e) : e \in faults}                      \* table info, PRAGMA, Begin
             \cup (IF unmapped
                   THEN {OpenOutcome(Rollback(tx, tx), type, ErrNoMapping)}
                   ELSE {OpenOutcome(Rollback(tx, tx), type, e) : e \in faults}        \* creating, reading, inserting
                        \cup {OpenOutcome(Rollback(tx, dropped), type, e) : e \in faults} \* replacing tables, commit
                        \cup UNION {LET m == MigratedTables(tx, fileRows, snapshotRows)
                                    IN  (IF ForeignKeyViolations(m) = {}
                                         THEN {OpenOutcome(m, "TEXT", NoErr)}
                                         ELSE {OpenOutcome(m, "TEXT", ErrForeignKey)})
                                        \cup {OpenOutcome(m, "TEXT", e) : e \in faults}  \* after the commit
                                    : fileRows \in Orders(tx.files),
                                      snapshotRows \in Orders(tx.snapshots)})

\* New: open, PRAGMAs and createSchema leave the rows alone; then migrateIfNeeded
New(tx, type, faults) ==
    {OpenOutcome(tx, type, e) : e \in faults}
    \cup migrateIfNeeded(tx, type, faults)

Item(p, c, m) == [filePath |-> p, content |-> c, maxSnapshots |-> m]

Items == {Item(p, c, CapOf(p)) : p \in StorePaths, c \in StoreContents}


NoSave == [content |-> <<>>, ok |-> FALSE]

NoProbe == [fn |-> "none"]

\* no call of New observed
NotOpened == [n |-> 0, before |-> <<>>, err |-> "nil"]

\* createSchema on a new database: files.id is TEXT
CurrentSchema ==
    /\ idType = "TEXT"
    /\ opening = NotOpened

ScanIDs == 1..MaxScans

\* a scan goroutine that has not been started
NoScan == [root |-> <<>>, pc |-> "none", todo |-> <<>>, called |-> {}, cut |-> FALSE]

\* New: scanningDirs is an empty map, no scan goroutine exists
NoScans ==
    /\ scanningDirs = [made |-> TRUE, roots |-> {}]
    /\ scans = [i \in ScanIDs |-> NoScan]

\* The rows a call that is not DeleteFile deletes with a file
NoRows == [files |-> {}, snapshots |-> {}, renames |-> {}]

\* no store call has returned
NoCall == [call |-> <<>>, removed |-> {}, deleted |-> NoRows, commitErr |-> NoErr, n |-> 0]

\* no snapshot was inserted for the path
NoContent == <<>>

RECURSIVE LastInserted(_, _, _, _)
\* The content of the snapshot inserted last for path p before item i + 1 of a
\* call: by an earlier item of the call, or else the newest row the file had
\* when the call began.
LastInserted(items, res, i, p) ==
    IF i = 0
    THEN LET f == FileByPath(CurrentTx, p)
             rows == IF f = {} THEN {} ELSE SnapshotsOf(CurrentTx, (CHOOSE g \in f : TRUE).id)
         IN  IF rows = {} THEN NoContent ELSE DecodeAll(Newest(rows).content)
    ELSE IF items[i].filePath = p /\ res.rows[i] # NoID
         THEN items[i].content
         ELSE LastInserted(items, res, i - 1, p)

RECURSIVE PrevOf(_, _, _, _)
\* The save of path p that precedes item i of a call: an earlier item of the
\* call, or the latest save of an earlier call.
PrevOf(items, res, i, p) ==
    IF i = 0 THEN prevSave[p]
    ELSE IF items[i].filePath = p
         THEN [content |-> items[i].content, ok |-> res.errs[i] = NoErr]
         ELSE PrevOf(items, res, i - 1, p)

CallRecord(items, res) ==
    [i \in 1..Len(items) |->
        [filePath |-> items[i].filePath, content |-> items[i].content,
         maxSnapshots |-> items[i].maxSnapshots,
         saved |-> res.saved[i], err |-> res.errs[i], row |-> res.rows[i],
         inTx |-> res.inTx[i],
         last |-> LastInserted(items, res, i - 1, items[i].filePath),
         repeat |-> LET q == PrevOf(items, res, i - 1, items[i].filePath)
                    IN  q.ok /\ q.content = items[i].content]]

Commit(tx) ==
    /\ files' = tx.files
    /\ snapshots' = tx.snapshots
    /\ renames' = tx.renames
    /\ nextID' = tx.nextID

\* The bytes given for the rows that remain after a call that inserted rows
Written(tx, items, rows) ==
    {w \in written \cup {[id |-> rows[i], content |-> items[i].content] :
                            i \in {k \in 1..Len(items) : rows[k] # NoID}} :
        \E s \in tx.snapshots : s.id = w.id}

Observe(items, res) ==
    /\ lastCall' = [call |-> CallRecord(items, res), removed |-> snapshots \ res.tx.snapshots,
                    deleted |-> NoRows, commitErr |-> res.commitErr, n |-> 1 - lastCall.n]
    /\ prevSave' = [p \in StorePaths |-> PrevOf(items, res, Len(items), p)]
    /\ written' = Written(res.tx, items, res.rows)

pipelineVars == <<envVars, cfgVars, ingestVars, workerVars>>

StoreSaveSnapshot(faults) ==
    /\ nextID + 1 <= MaxID
    /\ \E it \in Items :
         \E o \in SaveSnapshot(CurrentTx, it.filePath, it.content, it.maxSnapshots, Unix(clock), faults) :
            LET res == [tx |-> o.tx, saved |-> <<o.saved>>, errs |-> <<o.err>>, rows |-> <<o.row>>,
                        commitErr |-> NoErr, inTx |-> <<o.saved>>]
            IN  Commit(o.tx) /\ Observe(<<it>>, res)
    /\ UNCHANGED <<clock, pipelineVars>>

StoreSaveSnapshotBatch(faults) ==
    /\ nextID + 3 <= MaxID
    /\ \E it1 \in Items, it2 \in Items :
         \E res \in SaveSnapshotBatch(CurrentTx, <<it1, it2>>, Unix(clock), faults, 0) :
            Commit(res.tx) /\ Observe(<<it1, it2>>, res)
    /\ UNCHANGED <<clock, pipelineVars>>

StoreSaveRename(faults) ==
    /\ nextID + 1 <= MaxID
    /\ \E old \in StorePaths : \E new \in StorePaths \ {old} :
         \E o \in SaveRename(CurrentTx, old, new, Unix(clock), faults) :
            Commit(o.tx)
    /\ UNCHANGED <<clock, obsStoreVars, pipelineVars>>

\* DeleteFile called by a client, for the id of a row or an id no row has
StoreDeleteFile(faults) ==
    /\ \E id \in {f.id : f \in files} \cup {nextID} :
         \E o \in DeleteFile(CurrentTx, id, faults) :
            /\ Commit(o.tx)
            /\ lastCall' = [call |-> <<>>, removed |-> {}, commitErr |-> NoErr, n |-> lastCall.n,
                            deleted |-> [files |-> files \ o.tx.files,
                                         snapshots |-> snapshots \ o.tx.snapshots,
                                         renames |-> renames \ o.tx.renames]]
            /\ prevSave' = [p \in StorePaths |->
                                IF \E f \in files \ o.tx.files : f.path = p THEN NoSave ELSE prevSave[p]]
            /\ written' = Written(o.tx, <<>>, <<>>)
    /\ UNCHANGED <<clock, pipelineVars>>

\* the items of callers whose cap differs from call to call, as after a change
\* of the configuration
SaveItems == {Item(PathA, TextX, 0), Item(PathA, TextY, 0), Item(PathA, TextY, 1)}

\* the error the engine raises in these calls
SaveFaults == {ErrOther}

\* SaveSnapshot called with an engine that can fail any statement
SaveSnapshotCall ==
    /\ nextID + 1 <= MaxID
    /\ \E it \in SaveItems :
         \E o \in SaveSnapshot(CurrentTx, it.filePath, it.content, it.maxSnapshots, Unix(clock), SaveFaults) :
            LET res == [tx |-> o.tx, saved |-> <<o.saved>>, errs |-> <<o.err>>, rows |-> <<o.row>>,
                        commitErr |-> NoErr, inTx |-> <<o.saved>>]
            IN  Commit(o.tx) /\ Observe(<<it>>, res)
    /\ UNCHANGED <<clock, pipelineVars>>

\* SaveSnapshotBatch called with an engine that can fail one statement of the
\* call
SaveSnapshotBatchCall ==
    /\ nextID + 3 <= MaxID
    /\ \E it1 \in SaveItems, it2 \in SaveItems :
         \E res \in SaveSnapshotBatch(CurrentTx, <<it1, it2>>, Unix(clock), SaveFaults, 1) :
            Commit(res.tx) /\ Observe(<<it1, it2>>, res)
    /\ UNCHANGED <<clock, pipelineVars>>

\* A second passes between two calls
StoreSecond ==
    /\ clock + TicksPerSec <= MaxClock
    /\ clock' = clock + TicksPerSec
    /\ UNCHANGED <<storeVars, obsStoreVars, pipelineVars>>

StoreTick ==
    /\ clock < MaxClock
    /\ clock' = clock + 1
    /\ UNCHANGED <<storeVars, obsStoreVars, pipelineVars>>

\* The pipeline at rest, for the callers that use the store alone
\* New: the Watcher before Run
WatcherAtStart ==
    /\ timers = [p \in Paths |-> NoTimer]
    /\ armed = [p \in Paths |-> <<>>]
    /\ callbacks = [p \in Paths |-> 0]
    /\ sending = {}
    /\ pendingRenames = [p \in Paths |-> NoTime]
    /\ sweeps = {}
    /\ saveCh = <<>>
    /\ nextJob = 1
    /\ handled = [op |-> "none", name |-> <<>>]
    /\ burst = [p \in Paths |-> [last |-> NoTime, fired |-> <<>>]]

IdleWatcher ==
    /\ WatcherAtStart
    /\ events = 0

\* saveWorker before its first receive, and an engine that raises no error
WorkerAtStart ==
    /\ wPc = "idle"
    /\ wFinal = FALSE
    /\ wSnapshots = <<>>
    /\ wRenames = <<>>
    /\ wIdx = 0
    /\ attempt = 0
    /\ wake = 0
    /\ savedSlice = <<>>
    /\ errSlice = <<>>
    /\ writers = {}
    /\ faultsLeft = 0
    /\ log = <<>>
    /\ attempts = [j \in JobIDs |-> <<>>]
    /\ committed = {}
    /\ drained = {}

IdleWorker ==
    /\ useBatch = FALSE
    /\ WorkerAtStart

IdlePipeline ==
    /\ fs = [p \in Paths |-> [kind |-> "none", data |-> <<>>]]
    /\ phase = "running"
    /\ watchSets = runtimes(WatchSets)
    /\ probe = NoProbe
    /\ notified = <<>>
    /\ NoScans
    /\ CurrentSchema
    /\ IdleWatcher
    /\ IdleWorker

\* New (internal/db): a database with no rows
EmptyStore ==
    /\ files = {}
    /\ snapshots = {}
    /\ renames = {}
    /\ nextID = 1
    /\ clock = 0
    /\ lastCall = NoCall
    /\ prevSave = [p \in StorePaths |-> NoSave]
    /\ written = {}

InitStore ==
    /\ EmptyStore
    /\ IdlePipeline

NextStore ==
    \/ StoreSaveSnapshot({})
    \/ StoreSaveSnapshotBatch({})
    \/ StoreSaveRename({})
    \/ StoreDeleteFile({})
    \/ StoreTick

SpecStore == InitStore /\ [][NextStore]_vars

\* The save calls with engine errors and caps that change
NextSave ==
    \/ SaveSnapshotCall
    \/ SaveSnapshotBatchCall
    \/ StoreSecond

SpecSave == InitStore /\ [][NextSave]_vars

----------------------------------------------------------------------------
\* Claims about the store

----------------------------------------------------------------------------
\* The capture pipeline: internal/watcher/watcher.go

\* the contents a file takes
FileData(p) == IF p = PathA THEN {TextX, TextY} ELSE IF p = PathB THEN {TextY} ELSE {TextX}
WritablePaths == {PathA}

\* saveJob; a field that a Go literal leaves out has its zero value
SnapshotJob(id, p, c, m) ==
    [id |-> id, rename |-> FALSE, filePath |-> p, content |-> c, maxSnapshots |-> m,
     oldPath |-> <<>>, newPath |-> <<>>]
RenameJob(id, old, new) ==
    [id |-> id, rename |-> TRUE, filePath |-> <<>>, content |-> <<>>, maxSnapshots |-> 0,
     oldPath |-> old, newPath |-> new]

NewBurst(t) == [last |-> t, fired |-> <<>>]

\* time.Timer.Stop on the timer the map refers to: it no longer fires
RemoveFirst(seq, x) ==
    IF \E i \in 1..Len(seq) : seq[i] = x
    THEN LET i == CHOOSE k \in 1..Len(seq) : seq[k] = x /\ \A j \in 1..(k - 1) : seq[j] # x
         IN  SubSeq(seq, 1, i - 1) \o SubSeq(seq, i + 1, Len(seq))
    ELSE seq

TimersDue == \E p \in Paths : armed[p] # <<>> /\ armed[p][1] <= clock

\* scheduleSnapshot, as a relation on timers, armed and burst
scheduleSnapshot(filePath) ==
    IF findWatchSet(filePath) = 0 \/ phase \in {"closed", "crashed"}
    THEN UNCHANGED <<timers, armed, burst>>
    ELSE LET stopped == IF timers[filePath] # NoTimer
                        THEN RemoveFirst(armed[filePath], timers[filePath])
                        ELSE armed[filePath]
             deadline == clock + Debounce(filePath)
             b == burst[filePath]
         IN  /\ timers' = [timers EXCEPT ![filePath] = deadline]
             /\ armed' = [armed EXCEPT ![filePath] = Append(stopped, deadline)]
             /\ burst' = [burst EXCEPT ![filePath] =
                            IF b.last = NoTime \/ clock - b.last >= Debounce(filePath)
                            THEN NewBurst(clock)
                            ELSE [b EXCEPT !.last = clock]]

\* scheduleSnapshotIfTrackable without the shouldTrack test (variant)
scheduleSnapshotUnfiltered(filePath) == scheduleSnapshot(filePath)

scheduleSnapshotIfTrackable(filePath) ==
    IF shouldTrack(filePath) THEN scheduleSnapshot(filePath)
    ELSE UNCHANGED <<timers, armed, burst>>

matchesPendingRename(oldPath) == shouldTrack(oldPath)

\* An age test that lets an entry live for twice renameTimeout (variant)
StaleAfterTwo(oldPath) == clock - pendingRenames[oldPath] > 2 * renameTimeout

\* time.Since(pr.timestamp) > renameTimeout
Stale(oldPath) == clock - pendingRenames[oldPath] > renameTimeout
Pending == {q \in Paths : pendingRenames[q] # NoTime}
Matching == {q \in Pending : ~Stale(q) /\ matchesPendingRename(q)}

\* handleEvent for an event that has Rename
HandleRename(name) ==
    /\ IF phase = "closed"
       THEN \* assignment to an entry of the nil map pendingRenames panics
            phase' = "crashed" /\ UNCHANGED <<pendingRenames, sweeps>>
       ELSE /\ pendingRenames' = [pendingRenames EXCEPT ![name] = clock]
            /\ sweeps' = sweeps \cup {[path |-> name, at |-> clock + renameTimeout]}
            /\ UNCHANGED phase
    /\ UNCHANGED <<timers, armed, burst, sending, nextJob>>

\* handleEvent for Create of a file: tryMatchRename ranges over the map in an
\* order the runtime picks, drops the stale entries it meets and stops at the
\* first match.
HandleCreate(name) ==
    /\ UNCHANGED <<phase, sweeps>>
    /\ \/ /\ Matching # {}
          /\ \E oldPath \in Matching :
             \E met \in SUBSET {q \in Pending : Stale(q)} :
                /\ pendingRenames' = [q \in Paths |->
                        IF q = oldPath \/ q \in met THEN NoTime ELSE pendingRenames[q]]
                /\ sending' = sending \cup {RenameJob(nextJob, oldPath, name)}
                /\ nextJob' = nextJob + 1
          /\ scheduleSnapshotIfTrackable(name)
       \/ /\ Matching = {}
          /\ pendingRenames' = [q \in Paths |->
                    IF q \in Pending /\ Stale(q) THEN NoTime ELSE pendingRenames[q]]
          /\ UNCHANGED <<sending, nextJob>>
          /\ scheduleSnapshotIfTrackable(name)

\* handleEvent for Write
HandleWrite(name) ==
    /\ scheduleSnapshotIfTrackable(name)
    /\ UNCHANGED <<phase, pendingRenames, sweeps, sending, nextJob>>

\* Run receives one event and calls handleEvent
HandleEvent ==
    /\ phase # "crashed"
    /\ events < MaxEvents
    /\ ~TimersDue
    /\ events' = events + 1
    /\ \E name \in Paths :
          \/ HandleRename(name) /\ handled' = [op |-> "Rename", name |-> name]
          \/ HandleCreate(name) /\ handled' = [op |-> "Create", name |-> name]
          \/ HandleWrite(name) /\ handled' = [op |-> "Write", name |-> name]
    /\ UNCHANGED <<clock, fs, callbacks, saveCh, storeVars, obsStoreVars, cfgVars, workerVars>>

\* takeSnapshot with a size check that turned away a file of exactly the
\* maximum size (variant)
EligibleBelow(filePath) ==
    LET ws == findWatchSet(filePath)
        info == fs[filePath]
    IN  /\ ws # 0
        /\ info.kind = "file"
        /\ Len(info.data) < watchSets[ws].maxFileSize
        /\ Len(info.data) # 0
        /\ ~isBinary(info.data)

\* takeSnapshot: the checks a file passes before it is captured
Eligible(filePath) ==
    LET ws == findWatchSet(filePath)
        info == fs[filePath]
    IN  /\ ws # 0
        /\ info.kind = "file"
        /\ Len(info.data) <= watchSets[ws].maxFileSize
        /\ Len(info.data) # 0
        /\ ~isBinary(info.data)

\* takeSnapshot without its checks of the size and of the content (variant)
CaptureUnchecked(filePath) ==
    {SnapshotJob(nextJob, filePath, fs[filePath].data, CapOf(filePath))}

\* takeSnapshot up to the send: the job it sends, if any
Capture(filePath) ==
    IF Eligible(filePath)
    THEN {SnapshotJob(nextJob, filePath, fs[filePath].data, CapOf(filePath))}
    ELSE {}

\* A send that gives up when the channel is full (variant)
SendOrDrop(job) == saveCh' = IF Len(saveCh) < QueueCap THEN Append(saveCh, job) ELSE saveCh

\* "w.saveCh <- job" when the channel has room
Send(job) == Len(saveCh) < QueueCap /\ saveCh' = Append(saveCh, job)

\* The runtime fires a debounce timer: the callback runs takeSnapshot
TimerFire ==
    /\ phase # "crashed"
    /\ \E p \in Paths :
        /\ armed[p] # <<>>
        /\ armed[p][1] <= clock
        /\ armed' = [armed EXCEPT ![p] = Tail(armed[p])]
        /\ burst' = [burst EXCEPT ![p].fired = Append(@, armed[p][1] - Debounce(p))]
        /\ IF Eligible(p)
           THEN /\ sending' = sending \cup
                        {SnapshotJob(nextJob, p, fs[p].data, CapOf(p))}
                /\ nextJob' = nextJob + 1
                /\ UNCHANGED callbacks
           ELSE /\ callbacks' = [callbacks EXCEPT ![p] = @ + 1]
                /\ UNCHANGED <<sending, nextJob>>
    /\ UNCHANGED <<clock, fs, phase, timers, pendingRenames, sweeps, saveCh, events, handled,
                   storeVars, obsStoreVars, cfgVars, workerVars>>

\* takeSnapshot called by a timer callback or a scan, at a time its caller picks
TakeSnapshot ==
    /\ phase # "crashed"
    /\ nextJob <= MaxJobs
    /\ \E p \in {q \in Paths : shouldTrack(q)} :
        /\ \E job \in Capture(p) : Send(job)
    /\ nextJob' = nextJob + 1
    /\ UNCHANGED <<clock, fs, phase, timers, armed, callbacks, sending, pendingRenames, sweeps,
                   events, handled, burst, storeVars, obsStoreVars, cfgVars, workerVars>>

\* the pairs of paths the producers rename
RenamePairs == {<<PathA, PathB>>}

\* processRename started by tryMatchRename for a pair it matched
ProcessRename ==
    /\ phase # "crashed"
    /\ nextJob <= MaxJobs
    /\ \E pair \in RenamePairs :
        /\ matchesPendingRename(pair[1])
        /\ Send(RenameJob(nextJob, pair[1], pair[2]))
    /\ nextJob' = nextJob + 1
    /\ UNCHANGED <<clock, fs, phase, timers, armed, callbacks, sending, pendingRenames, sweeps,
                   events, handled, burst, storeVars, obsStoreVars, cfgVars, workerVars>>

\* A goroutine completes its send: takeSnapshot returns to the timer callback,
\* processRename returns.
CompleteSend ==
    /\ phase # "crashed"
    /\ \E job \in sending :
        /\ Send(job)
        /\ sending' = sending \ {job}
        /\ callbacks' = IF job.rename THEN callbacks
                        ELSE [callbacks EXCEPT ![job.filePath] = @ + 1]
    /\ UNCHANGED <<clock, fs, phase, timers, armed, pendingRenames, sweeps, nextJob, events, handled, burst,
                   storeVars, obsStoreVars, cfgVars, workerVars>>

\* The timer callback after takeSnapshot: lock, delete(w.timers, filePath), unlock
TimerCleanup ==
    /\ phase # "crashed"
    /\ \E p \in Paths :
        /\ callbacks[p] > 0
        /\ callbacks' = [callbacks EXCEPT ![p] = @ - 1]
        /\ timers' = [timers EXCEPT ![p] = NoTimer]
    /\ UNCHANGED <<clock, fs, phase, armed, sending, pendingRenames, sweeps, saveCh, nextJob,
                   events, handled, burst, storeVars, obsStoreVars, cfgVars, workerVars>>

\* The clean-up handleEvent schedules renameTimeout after a Rename event
Sweep ==
    /\ phase # "crashed"
    /\ \E s \in sweeps :
        /\ s.at <= clock
        /\ sweeps' = sweeps \ {s}
        /\ pendingRenames' =
              IF pendingRenames[s.path] # NoTime /\ clock - pendingRenames[s.path] >= renameTimeout
              THEN [pendingRenames EXCEPT ![s.path] = NoTime]
              ELSE pendingRenames
    /\ UNCHANGED <<clock, fs, phase, timers, armed, callbacks, sending, saveCh, nextJob, events,
                   handled, burst, storeVars, obsStoreVars, cfgVars, workerVars>>

\* An editor rewrites a file
WriteFile ==
    /\ phase # "crashed"
    /\ \E p \in WritablePaths : \E d \in FileData(p) \ {fs[p].data} :
          fs' = [fs EXCEPT ![p] = [kind |-> "file", data |-> d]]
    /\ UNCHANGED <<clock, phase, ingestVars, storeVars, obsStoreVars, cfgVars, workerVars>>

\* main on a signal: close(done)
Shutdown ==
    /\ phase = "running"
    /\ phase' = "done"
    /\ UNCHANGED <<clock, fs, ingestVars, storeVars, obsStoreVars, cfgVars, workerVars>>

\* Close: stops the timers of the map, then drops both maps
Close ==
    /\ phase = "done"
    /\ phase' = "closed"
    /\ armed' = [p \in Paths |->
                    IF timers[p] # NoTimer THEN RemoveFirst(armed[p], timers[p]) ELSE armed[p]]
    /\ timers' = [p \in Paths |-> NoTimer]
    /\ pendingRenames' = [p \in Paths |-> NoTime]
    /\ UNCHANGED <<clock, fs, callbacks, sending, sweeps, saveCh, nextJob, events, handled, burst,
                   storeVars, obsStoreVars, cfgVars, workerVars>>

\* A goroutine that can take its next step without waiting
Busy ==
    \/ \E p \in Paths : callbacks[p] > 0
    \/ sending # {} /\ Len(saveCh) < QueueCap

\* Half a second passes.  The runtime fires timers when they are due, and a
\* goroutine that does not have to wait takes its step within the tick.
Tick ==
    /\ phase # "crashed"
    /\ clock < MaxTime
    /\ ~TimersDue
    /\ ~Busy
    /\ clock' = clock + 1
    /\ UNCHANGED <<fs, phase, ingestVars, storeVars, obsStoreVars, cfgVars, workerVars>>

----------------------------------------------------------------------------
\* The save worker: saveWorker, processBatch, processSnapshotBatch, processSingleRename

RECURSIVE SelectJobs(_, _)
\* processBatch: the jobs of the batch that are renames (or are not), in order
SelectJobs(batch, rename) ==
    IF batch = <<>> THEN <<>>
    ELSE (IF Head(batch).rename = rename THEN <<Head(batch)>> ELSE <<>>)
         \o SelectJobs(Tail(batch), rename)

\* A worker that took every error for contention (variant, for C7)
IsError(err) == err # NoErr

\* strings.Contains(err.Error(), "database is locked")
IsLocked(err) == err = ErrLocked

\* A batch worker that retried after any error (variant, for C6)
hasAnyError(errs) == \E i \in 1..Len(errs) : errs[i] # NoErr

hasDatabaseLockedError(errs) == \E i \in 1..Len(errs) : errs[i] # NoErr /\ IsLocked(errs[i])

\* A notify loop that did not look at saved (variant, for C4)
NotifyUnlessError(saved, err) == err = NoErr

\* the condition under which the notify loop reports an item as saved
ShouldNotify(saved, err) == err = NoErr /\ saved

\* the errors the engine can raise in the next call
EngineFaults == IF faultsLeft > 0 THEN Faults ELSE {}

Spend(cost) == faultsLeft' = faultsLeft - cost

\* One store call as the history keeps it, for one job: the call's results for
\* the job, whether any result of the call was "database is locked", and for a
\* rename whether the old path had no row in files.
AttemptRecord(rename, err, saved, locked, untracked) ==
    [rename |-> rename, err |-> err, saved |-> saved, locked |-> locked, untracked |-> untracked]

\* processBatch after the last rename: back to the select, or return
FinishBatch ==
    /\ wPc' = IF wFinal THEN "exited" ELSE "idle"
    /\ wSnapshots' = <<>>
    /\ wRenames' = <<>>
    /\ wIdx' = 0
    /\ attempt' = 0
    /\ savedSlice' = <<>>
    /\ errSlice' = <<>>

\* processBatch after processSnapshotBatch: the first rename, if any
StartRenames ==
    IF wRenames # <<>>
    THEN /\ wPc' = "renaming"
         /\ wIdx' = 1
         /\ attempt' = 0
         /\ writers' = writers \cup {"worker"}
         /\ savedSlice' = <<>>
         /\ errSlice' = <<>>
         /\ UNCHANGED <<wSnapshots, wRenames>>
    ELSE FinishBatch /\ writers' = writers \ {"worker"}

\* processBatch from its start to the first store call
StartBatch(batch) ==
    LET snaps == SelectJobs(batch, FALSE)
        rens == SelectJobs(batch, TRUE)
    IN  IF snaps # <<>>
        THEN /\ wPc' = "saving"
             /\ wSnapshots' = snaps
             /\ wRenames' = rens
             /\ wIdx' = 1
             /\ attempt' = 0
             /\ savedSlice' = [i \in 1..Len(snaps) |-> FALSE]
             /\ errSlice' = [i \in 1..Len(snaps) |-> NoErr]
             /\ writers' = writers \cup {"worker"}
        ELSE /\ wPc' = "renaming"
             /\ wSnapshots' = <<>>
             /\ wRenames' = rens
             /\ wIdx' = 1
             /\ attempt' = 0
             /\ savedSlice' = <<>>
             /\ errSlice' = <<>>
             /\ writers' = writers \cup {"worker"}

\* drainBatch: the job received and the jobs the queue holds, saveQueueSize at most
drainBatch(ch) ==
    LET n == Min(Len(ch), QueueCap)
    IN  [batch |-> SubSeq(ch, 1, n), rest |-> SubSeq(ch, n + 1, Len(ch))]

\* A drain that stopped after the first job (variant)
drainFirst(ch) ==
    IF ch = <<>> THEN [batch |-> <<>>, rest |-> <<>>]
    ELSE [batch |-> <<Head(ch)>>, rest |-> Tail(ch)]

\* drainAll: every job the queue holds
drainAll(ch) == [batch |-> ch, rest |-> <<>>]

\* saveWorker: "case job := <-w.saveCh" with drainBatch
WorkerReceive ==
    /\ phase # "crashed"
    /\ wPc = "idle"
    /\ saveCh # <<>>
    /\ saveCh' = drainBatch(saveCh).rest
    /\ StartBatch(drainBatch(saveCh).batch)
    /\ UNCHANGED <<clock, fs, phase, timers, armed, callbacks, sending, pendingRenames, sweeps,
                   nextJob, events, handled, burst, storeVars, obsStoreVars, cfgVars,
                   useBatch, wFinal, wake, faultsLeft, log, attempts, committed, drained>>

\* saveWorker: "case <-done" with drainAll
WorkerDone ==
    /\ phase \in {"done", "closing", "closed"}
    /\ wPc = "idle"
    /\ saveCh' = drainAll(saveCh).rest
    /\ wFinal' = TRUE
    /\ drained' = {saveCh[i].id : i \in 1..Len(saveCh)}
    /\ IF drainAll(saveCh).batch = <<>>
       THEN /\ wPc' = "exited"
            /\ UNCHANGED <<wSnapshots, wRenames, wIdx, attempt, savedSlice, errSlice, writers>>
       ELSE StartBatch(drainAll(saveCh).batch)
    /\ UNCHANGED <<clock, fs, phase, timers, armed, callbacks, sending, pendingRenames, sweeps,
                   nextJob, events, handled, burst, storeVars, obsStoreVars, cfgVars,
                   useBatch, wake, faultsLeft, log, attempts, committed>>

RECURSIVE NotifyLoop(_, _, _)
\* The loop of processSnapshotBatch over the results: what it logs and notifies
NotifyLoop(jobs, saved, errs) ==
    IF jobs = <<>> THEN <<>>
    ELSE (IF Head(errs) # NoErr THEN <<[kind |-> "failed", id |-> Head(jobs).id]>>
          ELSE IF ShouldNotify(Head(saved), Head(errs))
               THEN <<[kind |-> "OnSnapshot", id |-> Head(jobs).id]>>
               ELSE <<>>)
         \o NotifyLoop(Tail(jobs), Tail(saved), Tail(errs))

\* processSnapshotBatch from the end of its save loop to the end of processBatch's
\* snapshot part
FinishSnapshots(saved, errs) ==
    /\ log' = log \o NotifyLoop(wSnapshots, saved, errs)
    /\ StartRenames

ItemOf(job) == [filePath |-> job.filePath, content |-> job.content, maxSnapshots |-> job.maxSnapshots]

\* A call of the batch saver returns (saver(filePaths, contents, maxSnapshotsSlice))
SaveBatchReturn ==
    /\ phase # "crashed"
    /\ wPc = "saving"
    /\ useBatch
    /\ LET items == [i \in 1..Len(wSnapshots) |-> ItemOf(wSnapshots[i])]
       IN  \E res \in SaveSnapshotBatch(CurrentTx, items, Unix(clock), EngineFaults, faultsLeft) :
            LET locked == hasDatabaseLockedError(res.errs)
            IN  /\ Commit(res.tx)
                /\ Spend(res.cost)
                /\ attempts' = [j \in JobIDs |->
                        IF \E i \in 1..Len(items) : wSnapshots[i].id = j
                        THEN LET i == CHOOSE k \in 1..Len(items) : wSnapshots[k].id = j
                             IN  Append(attempts[j],
                                        AttemptRecord(FALSE, res.errs[i], res.saved[i],
                                                      \E k \in 1..Len(items) : res.errs[k] = ErrLocked, FALSE))
                        ELSE attempts[j]]
                /\ committed' = committed \cup
                        {wSnapshots[i].id : i \in {k \in 1..Len(items) :
                            \E r \in res.tx.snapshots : r.id = res.rows[k]}}
                /\ IF locked /\ attempt + 1 < saveRetryCount
                   THEN /\ wPc' = "sleeping"
                        /\ wake' = clock + saveRetryDelay
                        /\ attempt' = attempt + 1
                        /\ savedSlice' = res.saved
                        /\ errSlice' = res.errs
                        /\ writers' = writers \ {"worker"}
                        /\ UNCHANGED <<wSnapshots, wRenames, wIdx, log>>
                   ELSE /\ FinishSnapshots(res.saved, res.errs)
                        /\ UNCHANGED wake
    /\ UNCHANGED <<clock, fs, phase, ingestVars, obsStoreVars, cfgVars, useBatch, wFinal, drained>>

\* A call of the single saver returns (w.save(filePaths[i], contents[i], maxSnapshotsSlice[i]))
SaveItemReturn ==
    /\ phase # "crashed"
    /\ wPc = "saving"
    /\ ~useBatch
    /\ LET job == wSnapshots[wIdx]
       IN  \E o \in SaveSnapshot(CurrentTx, job.filePath, job.content, job.maxSnapshots,
                                 Unix(clock), EngineFaults) :
            LET saved == [savedSlice EXCEPT ![wIdx] = o.saved]
                errs == [errSlice EXCEPT ![wIdx] = o.err]
            IN  /\ Commit(o.tx)
                /\ Spend(IF o.err \in Faults THEN 1 ELSE 0)
                /\ attempts' = [attempts EXCEPT ![job.id] =
                        Append(@, AttemptRecord(FALSE, o.err, o.saved, o.err = ErrLocked, FALSE))]
                /\ committed' = committed \cup
                        (IF \E r \in o.tx.snapshots : r.id = o.row THEN {job.id} ELSE {})
                /\ IF o.err # NoErr /\ IsLocked(o.err) /\ attempt + 1 < saveRetryCount
                   THEN /\ wPc' = "sleeping"
                        /\ wake' = clock + saveRetryDelay
                        /\ attempt' = attempt + 1
                        /\ savedSlice' = saved
                        /\ errSlice' = errs
                        /\ writers' = writers \ {"worker"}
                        /\ UNCHANGED <<wSnapshots, wRenames, wIdx, log>>
                   ELSE IF wIdx < Len(wSnapshots)
                        THEN /\ wIdx' = wIdx + 1
                             /\ attempt' = 0
                             /\ savedSlice' = saved
                             /\ errSlice' = errs
                             /\ UNCHANGED <<wPc, wSnapshots, wRenames, wake, writers, log>>
                        ELSE /\ FinishSnapshots(saved, errs)
                             /\ UNCHANGED wake
    /\ UNCHANGED <<clock, fs, phase, ingestVars, obsStoreVars, cfgVars, useBatch, wFinal, drained>>

\* processSingleRename after its retry loop: what it logs and notifies
RenameLog(job, newFileID, err) ==
    IF err # NoErr THEN <<[kind |-> "failed", id |-> job.id]>>
    ELSE IF newFileID = NoID THEN <<>>
    ELSE <<[kind |-> "OnRename", id |-> job.id]>>

\* A call of the rename saver returns (w.saveRename(oldPath, newPath))
SaveRenameReturn ==
    /\ phase # "crashed"
    /\ wPc = "renaming"
    /\ LET job == wRenames[wIdx]
       IN  \E o \in SaveRename(CurrentTx, job.oldPath, job.newPath, Unix(clock), EngineFaults) :
            /\ Commit(o.tx)
            /\ Spend(IF o.err \in Faults THEN 1 ELSE 0)
            /\ attempts' = [attempts EXCEPT ![job.id] =
                    Append(@, AttemptRecord(TRUE, o.err, o.newFileID # NoID, o.err = ErrLocked,
                                            FileByPath(CurrentTx, job.oldPath) = {}))]
            /\ IF o.err # NoErr /\ IsLocked(o.err) /\ attempt + 1 < saveRetryCount
               THEN /\ wPc' = "rsleeping"
                    /\ wake' = clock + saveRetryDelay
                    /\ attempt' = attempt + 1
                    /\ writers' = writers \ {"worker"}
                    /\ UNCHANGED <<wSnapshots, wRenames, wIdx, savedSlice, errSlice, log>>
               ELSE /\ log' = log \o RenameLog(job, o.newFileID, o.err)
                    /\ UNCHANGED wake
                    /\ IF wIdx < Len(wRenames)
                       THEN /\ wIdx' = wIdx + 1
                            /\ attempt' = 0
                            /\ UNCHANGED <<wPc, wSnapshots, wRenames, savedSlice, errSlice, writers>>
                       ELSE FinishBatch /\ writers' = writers \ {"worker"}
    /\ UNCHANGED <<clock, fs, phase, ingestVars, obsStoreVars, cfgVars, useBatch, wFinal, committed, drained>>

\* time.Sleep(saveRetryDelay) returns and the next attempt starts
Sleep ==
    /\ phase # "crashed"
    /\ wPc \in {"sleeping", "rsleeping"}
    /\ clock' = wake
    /\ wPc' = IF wPc = "sleeping" THEN "saving" ELSE "renaming"
    /\ writers' = writers \cup {"worker"}
    /\ UNCHANGED <<fs, phase, ingestVars, storeVars, obsStoreVars, cfgVars,
                   useBatch, wFinal, wSnapshots, wRenames, wIdx, attempt, wake,
                   savedSlice, errSlice, faultsLeft, log, attempts, committed, drained>>

\* "go w.OnSnapshot(s.filePath)": one of the goroutines the notify loop started
\* runs its call of the notifier
OnSnapshotRun ==
    /\ \E i \in 1..Len(log) :
        /\ log[i].kind = "OnSnapshot"
        /\ \A k \in 1..Len(notified) : notified[k] # log[i].id
        /\ notified' = Append(notified, log[i].id)
    /\ UNCHANGED <<clock, fs, phase, watchSets, probe, scanVars, schemaVars, ingestVars, storeVars, obsStoreVars, workerVars>>

Init ==
    /\ files = {}
    /\ snapshots = {}
    /\ renames = {}
    /\ nextID = 1
    /\ clock = 0
    /\ lastCall = NoCall
    /\ prevSave = [p \in StorePaths |-> NoSave]
    /\ written = {}
    /\ fs = [p \in Paths |-> [kind |-> "file", data |-> CHOOSE d \in FileData(p) : TRUE]]
    /\ phase = "running"
    /\ watchSets = runtimes(WatchSets)
    /\ probe = NoProbe
    /\ notified = <<>>
    /\ NoScans
    /\ CurrentSchema
    /\ timers = [p \in Paths |-> NoTimer]
    /\ armed = [p \in Paths |-> <<>>]
    /\ callbacks = [p \in Paths |-> 0]
    /\ sending = {}
    /\ pendingRenames = [p \in Paths |-> NoTime]
    /\ sweeps = {}
    /\ saveCh = <<>>
    /\ nextJob = 1
    /\ events = 0
    /\ handled = [op |-> "none", name |-> <<>>]
    /\ burst = [p \in Paths |-> [last |-> NoTime, fired |-> <<>>]]
    /\ useBatch \in BOOLEAN
    /\ wPc = "idle"
    /\ wFinal = FALSE
    /\ wSnapshots = <<>>
    /\ wRenames = <<>>
    /\ wIdx = 0
    /\ attempt = 0
    /\ wake = 0
    /\ savedSlice = <<>>
    /\ errSlice = <<>>
    /\ writers = {}
    /\ faultsLeft = MaxFaults
    /\ log = <<>>
    /\ attempts = [j \in JobIDs |-> <<>>]
    /\ committed = {}
    /\ drained = {}

\* The watcher up to the queue
NextWatch ==
    \/ HandleEvent
    \/ TimerFire
    \/ CompleteSend
    \/ TimerCleanup
    \/ Sweep
    \/ WriteFile
    \/ Tick

InitWatch == Init /\ ~useBatch

SpecWatch == InitWatch /\ [][NextWatch]_vars

\* The watcher with files that keep their content: events, renames and timers
NextRename ==
    \/ HandleEvent
    \/ TimerFire
    \/ CompleteSend
    \/ TimerCleanup
    \/ Sweep
    \/ Tick

SpecRename == InitWatch /\ [][NextRename]_vars

\* The watcher while main shuts it down: main closes done and calls Close
\* without waiting for Run, so Run can still be inside handleEvent, or pick
\* an event that is ready together with done
NextLate ==
    \/ HandleEvent
    \/ Shutdown
    \/ Close
    \/ TimerFire
    \/ CompleteSend
    \/ TimerCleanup
    \/ Sweep
    \/ Tick

SpecLate == InitWatch /\ [][NextLate]_vars

\* The worker, with takeSnapshot and processRename called at any time
Next ==
    \/ TakeSnapshot
    \/ ProcessRename
    \/ Shutdown
    \/ WorkerReceive
    \/ WorkerDone
    \/ SaveBatchReturn
    \/ SaveItemReturn
    \/ SaveRenameReturn
    \/ Sleep
    \/ OnSnapshotRun

Spec == Init /\ [][Next]_vars

\* a step of the goroutine of saveWorker when it saves item by item
WorkerStep ==
    \/ WorkerReceive
    \/ WorkerDone
    \/ SaveItemReturn
    \/ Sleep

\* saveWorker is a goroutine of its own: while it can take a step, it is
\* scheduled
FairWorker == WF_vars(WorkerStep)

\* The producers of capture jobs and the worker, to the end of the program
NextFair ==
    \/ TakeSnapshot
    \/ Shutdown
    \/ WorkerReceive
    \/ WorkerDone
    \/ SaveItemReturn
    \/ Sleep

SpecFair == InitWatch /\ [][NextFair]_vars /\ FairWorker

----------------------------------------------------------------------------
\* Direct calls of findWatchSet, shouldTrack, isBinary and takeSnapshot, for a
\* configuration and a file drawn at the start

PathC == <<"/", "R", "/", "s", "x", "/", "c", ".txt">>
PathQ == <<"/", "Q", "/", "a", ".txt">>
PathN == <<"/", "R", "/", "node_modules", "/", "a", ".txt">>
PathSN == <<"/", "R", "/", "s", "/", "node_modules", "/", "b", ".txt">>
PathST == <<"/", "R", "/", "s", "/", "t", ".tmp">>
PathNoExt == <<"/", "R", "/", "a">>
ProbePaths == Paths \cup {PathC, PathQ, PathN, PathSN, PathST, PathNoExt, DirR, DirS}

TmpSet ==
    [name |-> "tmp", dirs |-> {DirR \o <<Separator>>}, extSet |-> {<<".tmp">>},
     excludePatterns |-> {}, debounceSec |-> 2, maxFileSize |-> 1, maxSnapshots |-> 1]
OtherSet ==
    [name |-> "other", dirs |-> {DirS, <<"/", "Q">>}, extSet |-> {<<".txt">>},
     excludePatterns |-> {<<"node_modules">>}, debounceSec |-> 1, maxFileSize |-> 1, maxSnapshots |-> 0]

ProbeConfigs ==
    { <<WatchSets[1]>>, <<WatchSets[2]>>, WatchSets, <<WatchSets[2], WatchSets[1]>>,
      <<TmpSet, WatchSets[2]>>, <<OtherSet>>, <<WatchSets[1], OtherSet>> }

\* a file of n bytes with a NUL at position z (none when z = 0)
Bytes(n, z) == [i \in 1..n |-> IF i = z THEN 0 ELSE 1]

SmallData == {<<>>, <<1>>, <<1, 1>>, <<1, 1, 1>>, <<0>>, <<1, 0>>}
LargeData ==
    {Bytes(n, z) : n \in {binaryCheckSize - 1, binaryCheckSize, binaryCheckSize + 1},
                   z \in {0, 1, binaryCheckSize, binaryCheckSize + 1}}

\* what os.Stat and os.ReadFile find at a path
FileInfos ==
    {[kind |-> "file", data |-> d] : d \in SmallData}
    \cup {[kind |-> "none", data |-> <<>>], [kind |-> "unreadable", data |-> <<1>>]}

CallFindWatchSet ==
    /\ \E p \in DOMAIN fs :
          probe' = [fn |-> "findWatchSet", path |-> p, result |-> findWatchSet(p)]
    /\ UNCHANGED <<clock, fs, phase, watchSets, notified, scanVars, schemaVars, storeVars, obsStoreVars, ingestVars, workerVars>>

CallShouldTrack ==
    /\ \E p \in DOMAIN fs :
          probe' = [fn |-> "shouldTrack", path |-> p, result |-> shouldTrack(p)]
    /\ UNCHANGED <<clock, fs, phase, watchSets, notified, scanVars, schemaVars, storeVars, obsStoreVars, ingestVars, workerVars>>

CallIsBinary ==
    /\ \E p \in DOMAIN fs :
          /\ fs[p].kind = "file"
          /\ probe' = [fn |-> "isBinary", path |-> p, result |-> isBinary(fs[p].data)]
    /\ UNCHANGED <<clock, fs, phase, watchSets, notified, scanVars, schemaVars, storeVars, obsStoreVars, ingestVars, workerVars>>

\* takeSnapshot called for a path, whatever the path
CallTakeSnapshot ==
    /\ nextJob <= MaxJobs
    /\ \E p \in DOMAIN fs :
          IF Capture(p) # {}
          THEN /\ \E job \in Capture(p) : Send(job)
               /\ nextJob' = nextJob + 1
               /\ probe' = [fn |-> "takeSnapshot", path |-> p, result |-> Len(saveCh') - Len(saveCh)]
          ELSE /\ UNCHANGED <<saveCh, nextJob>>
               /\ probe' = [fn |-> "takeSnapshot", path |-> p, result |-> 0]
    /\ UNCHANGED <<clock, fs, phase, watchSets, notified, scanVars, schemaVars, timers, armed, callbacks, sending, pendingRenames,
                   sweeps, events, handled, burst, storeVars, obsStoreVars, workerVars>>

InitFilter ==
    /\ EmptyStore
    /\ \E cfg \in ProbeConfigs : watchSets = runtimes(cfg)
    /\ \/ \E p \in ProbePaths, info \in FileInfos : fs = [q \in {p} |-> info]
       \/ \E d \in LargeData : fs = [q \in {PathA} |-> [kind |-> "file", data |-> d]]
    /\ phase = "running"
    /\ probe = NoProbe
    /\ notified = <<>>
    /\ NoScans
    /\ CurrentSchema
    /\ IdleWatcher
    /\ IdleWorker

NextFilter ==
    \/ CallFindWatchSet
    \/ CallShouldTrack
    \/ CallIsBinary
    \/ CallTakeSnapshot

SpecFilter == InitFilter /\ [][NextFilter]_vars

----------------------------------------------------------------------------
\* The pipeline from the event to the store, with two nested groups that
\* differ in every setting and a store engine that raises no error

NestedSet ==
    [name |-> "nested", dirs |-> {DirS}, extSet |-> {},
     excludePatterns |-> {}, debounceSec |-> 2, maxFileSize |-> 1, maxSnapshots |-> 2]
TightSet == [WatchSets[1] EXCEPT !.maxSnapshots = 1]

PolicyConfigs == { <<TightSet, NestedSet>>, <<NestedSet, TightSet>> }

InitPolicy ==
    /\ EmptyStore
    /\ \E cfg \in PolicyConfigs : watchSets = runtimes(cfg)
    /\ \E d \in {TextY, TextY \o TextY} :
          fs = [p \in Paths |-> [kind |-> "file",
                                 data |-> IF p = PathB THEN d ELSE CHOOSE c \in FileData(p) : TRUE]]
    /\ phase = "running"
    /\ probe = NoProbe
    /\ notified = <<>>
    /\ NoScans
    /\ CurrentSchema
    /\ WatcherAtStart
    /\ events = MaxEvents - 2          \* two events are followed through the pipeline
    /\ WorkerAtStart
    /\ useBatch \in BOOLEAN

NextPolicy ==
    \/ HandleEvent
    \/ TimerFire
    \/ CompleteSend
    \/ TimerCleanup
    \/ WriteFile
    \/ Tick
    \/ WorkerReceive
    \/ SaveBatchReturn
    \/ SaveItemReturn
    \/ SaveRenameReturn

SpecPolicy == InitPolicy /\ [][NextPolicy]_vars

----------------------------------------------------------------------------
\* The queue between its producers and the worker: one job more than saveCh
\* holds, a store engine that raises no error

\* takeSnapshot, called by a timer callback or by the scanner, up to its send
TakeSnapshotToSend ==
    /\ nextJob <= QueueCap + 1
    /\ \E p \in {q \in Paths : shouldTrack(q)} :
        /\ \E job \in Capture(p) : sending' = sending \cup {job}
        /\ probe' = [fn |-> "send", path |-> p,
                     result |-> [id |-> nextJob, full |-> Len(saveCh) = QueueCap, read |-> <<fs[p].data>>]]
    /\ nextJob' = nextJob + 1
    /\ UNCHANGED <<clock, fs, phase, watchSets, notified, scanVars, schemaVars, timers, armed, callbacks, pendingRenames, sweeps, saveCh,
                   events, handled, burst, storeVars, obsStoreVars, workerVars>>

\* processRename, started by tryMatchRename, up to its send
ProcessRenameToSend ==
    /\ nextJob <= QueueCap + 1
    /\ \E pair \in RenamePairs :
        /\ matchesPendingRename(pair[1])
        /\ sending' = sending \cup {RenameJob(nextJob, pair[1], pair[2])}
        /\ probe' = [fn |-> "send", path |-> pair[2],
                     result |-> [id |-> nextJob, full |-> Len(saveCh) = QueueCap, read |-> <<>>]]
    /\ nextJob' = nextJob + 1
    /\ UNCHANGED <<clock, fs, phase, watchSets, notified, scanVars, schemaVars, timers, armed, callbacks, pendingRenames, sweeps, saveCh,
                   events, handled, burst, storeVars, obsStoreVars, workerVars>>

InitQueue ==
    /\ EmptyStore
    /\ fs = [p \in Paths |-> [kind |-> "file", data |-> CHOOSE d \in FileData(p) : TRUE]]
    /\ phase = "running"
    /\ watchSets = runtimes(WatchSets)
    /\ probe = NoProbe
    /\ notified = <<>>
    /\ NoScans
    /\ CurrentSchema
    /\ IdleWatcher
    /\ WorkerAtStart
    /\ useBatch \in BOOLEAN

NextQueue ==
    \/ TakeSnapshotToSend
    \/ ProcessRenameToSend
    \/ CompleteSend
    \/ Shutdown
    \/ WorkerReceive
    \/ WorkerDone
    \/ SaveBatchReturn
    \/ SaveItemReturn
    \/ SaveRenameReturn

SpecQueue == InitQueue /\ [][NextQueue]_vars

\* The saves of files that are rewritten while their jobs are on the way:
\* takeSnapshot called by timer callbacks and scans, and the worker
NextReads ==
    \/ TakeSnapshotToSend
    \/ WriteFile
    \/ CompleteSend
    \/ WorkerReceive
    \/ SaveBatchReturn
    \/ SaveItemReturn

SpecReads == InitQueue /\ [][NextReads]_vars

----------------------------------------------------------------------------
\* takeSnapshot in the two steps in which it looks at the file: os.Stat with
\* the checks of the size, then os.ReadFile with the check of the content

\* the contents an editor gives the file: empty, within the limit, beyond it
EditData == {<<>>, TextX, <<1, 1, 1>>}

\* takeSnapshot from its start to the checks of info.Size(); a call that a
\* check turns away returns and leaves nothing
StatFile ==
    /\ probe.fn # "stat"
    /\ nextJob <= MaxJobs
    /\ \E p \in WritablePaths :
        LET ws == findWatchSet(p)
            info == fs[p]
        IN  /\ ws # 0
            /\ info.kind = "file"
            /\ Len(info.data) <= watchSets[ws].maxFileSize
            /\ Len(info.data) # 0
            /\ probe' = [fn |-> "stat", path |-> p, result |-> [size |-> Len(info.data)]]
    /\ UNCHANGED <<clock, fs, phase, watchSets, notified, scanVars, schemaVars, ingestVars,
                   storeVars, obsStoreVars, workerVars>>

\* takeSnapshot from os.ReadFile to its send: the bytes the file has now
ReadFile ==
    /\ probe.fn = "stat"
    /\ LET p == probe.path
           content == fs[p].data
       IN  IF isBinary(content)
           THEN UNCHANGED <<sending, nextJob>>
           ELSE /\ sending' = sending \cup {SnapshotJob(nextJob, p, content, CapOf(p))}
                /\ nextJob' = nextJob + 1
    /\ probe' = NoProbe
    /\ UNCHANGED <<clock, fs, phase, watchSets, notified, scanVars, schemaVars, timers, armed, callbacks,
                   pendingRenames, sweeps, saveCh, events, handled, burst,
                   storeVars, obsStoreVars, workerVars>>

\* An editor rewrites, truncates or extends a file
EditFile ==
    /\ \E p \in WritablePaths : \E d \in EditData \ {fs[p].data} :
          fs' = [fs EXCEPT ![p] = [kind |-> "file", data |-> d]]
    /\ UNCHANGED <<clock, phase, ingestVars, storeVars, obsStoreVars, cfgVars, workerVars>>

NextStat ==
    \/ StatFile
    \/ ReadFile
    \/ EditFile
    \/ CompleteSend
    \/ WorkerReceive
    \/ SaveBatchReturn
    \/ SaveItemReturn

SpecStat == InitQueue /\ [][NextStat]_vars

----------------------------------------------------------------------------
\* The bulk scanner: handleEvent for a created directory, scanExistingFiles, Close

DirD == <<"/", "R", "/", "d">>
DirDK == DirD \o <<"/", "k">>
DirDN == DirD \o <<"/", "node_modules">>
PathDBig == DirD \o <<"/", "big", ".txt">>
PathDBin == DirD \o <<"/", "bin", ".txt">>
PathDKC == DirDK \o <<"/", "c", ".txt">>
PathDM == DirD \o <<"/", "m", ".txt">>
PathDNL == DirDN \o <<"/", "l", ".txt">>
PathDR == DirD \o <<"/", "r", ".tmp">>

\* the directories and files of the scanned trees, in the lexical order in which
\* filepath.WalkDir visits them
ScanOrder ==
    <<DirD, PathDBig, PathDBin, DirDK, PathDKC, PathDM, DirDN, PathDNL, PathDR>>

ScanEntries == {ScanOrder[i] : i \in 1..Len(ScanOrder)}
ScanDirs == {DirD, DirDK, DirDN}

\* the file system of the scans: a too large file, a binary file, a file of
\* another extension, a file in an excluded directory, and two files that
\* pass every check, one of them in a sub-directory
ScanFS ==
    [p \in ScanEntries \cup Paths |->
        IF p \in ScanDirs THEN [kind |-> "dir", data |-> <<>>]
        ELSE IF p = PathDBig THEN [kind |-> "file", data |-> <<1, 1, 1>>]
        ELSE IF p = PathDBin THEN [kind |-> "file", data |-> <<0, 1>>]
        ELSE IF p \in {PathDKC, PathB} THEN [kind |-> "file", data |-> TextY]
        ELSE [kind |-> "file", data |-> TextX]]

Under(path, dir) == HasPrefix(path, dir \o <<Separator>>)

\* filepath.WalkDir(root, ...): root and what is below it, in lexical order
WalkDir(root) == SelectSeq(ScanOrder, LAMBDA e : e = root \/ Under(e, root))

\* fs.SkipDir returned for a directory: the walk leaves out what is below it
SkipDir(todo, dir) == SelectSeq(todo, LAMBDA e : ~Under(e, dir))

\* tryStartScan that looked only for the nil map (variant)
tryStartScanUnregistered(root) == scanningDirs.made

\* tryStartScan: whether the scan may proceed
tryStartScan(root) == scanningDirs.made /\ root \notin scanningDirs.roots

\* "case <-w.closeCh" can be taken
CloseChClosed == phase \in {"closing", "closed"}

\* handleEvent for Create of a directory: a directory that is not excluded is
\* watched and a goroutine is started for scanExistingFiles
HandleCreateDir ==
    /\ phase # "crashed"
    /\ \E i \in ScanIDs :
        /\ scans[i].pc = "none"
        /\ \A k \in 1..(i - 1) : scans[k].pc # "none"
        /\ \E name \in ScanDirs :
            /\ fs[name].kind = "dir"
            /\ scans' = IF isExcluded(name) THEN scans
                        ELSE [scans EXCEPT ![i] = [NoScan EXCEPT !.root = name, !.pc = "start"]]
    /\ UNCHANGED <<clock, fs, phase, watchSets, probe, notified, schemaVars, scanningDirs, ingestVars,
                   storeVars, obsStoreVars, workerVars>>

\* scanExistingFiles up to the walk: tryStartScan registers the root, or the
\* function returns
ScanStart ==
    /\ phase # "crashed"
    /\ \E i \in ScanIDs :
        /\ scans[i].pc = "start"
        /\ IF tryStartScan(scans[i].root)
           THEN /\ scanningDirs' = [scanningDirs EXCEPT !.roots = @ \cup {scans[i].root}]
                /\ scans' = [scans EXCEPT ![i].pc = "walk", ![i].todo = WalkDir(scans[i].root)]
           ELSE /\ scans' = [scans EXCEPT ![i].pc = "refused"]
                /\ UNCHANGED scanningDirs
    /\ UNCHANGED <<clock, fs, phase, watchSets, probe, notified, schemaVars, ingestVars,
                   storeVars, obsStoreVars, workerVars>>

\* The callback of the walk for one directory or file; takeSnapshot sends
\* when the queue has room
ScanVisit ==
    /\ phase # "crashed"
    /\ \E i \in ScanIDs :
        /\ scans[i].pc = "walk"
        /\ scans[i].todo # <<>>
        /\ LET path == Head(scans[i].todo)
               rest == Tail(scans[i].todo)
           IN  IF CloseChClosed
               THEN /\ scans' = [scans EXCEPT ![i].todo = <<>>, ![i].cut = TRUE]
                    /\ UNCHANGED <<saveCh, nextJob>>
               ELSE IF fs[path].kind = "dir"
               THEN /\ scans' = [scans EXCEPT ![i].todo =
                                    IF isExcluded(path) THEN SkipDir(rest, path) ELSE rest]
                    /\ UNCHANGED <<saveCh, nextJob>>
               ELSE IF shouldTrack(path)
               THEN /\ scans' = [scans EXCEPT ![i].todo = rest, ![i].called = @ \cup {path}]
                    /\ IF Capture(path) = {}
                       THEN UNCHANGED <<saveCh, nextJob>>
                       ELSE /\ \E job \in Capture(path) : Send(job)
                            /\ nextJob' = nextJob + 1
               ELSE /\ scans' = [scans EXCEPT ![i].todo = rest]
                    /\ UNCHANGED <<saveCh, nextJob>>
    /\ UNCHANGED <<clock, fs, phase, watchSets, probe, notified, schemaVars, scanningDirs, timers, armed, callbacks,
                   sending, pendingRenames, sweeps, events, handled, burst,
                   storeVars, obsStoreVars, workerVars>>

\* The walk has returned: the deferred finishScan
ScanFinish ==
    /\ phase # "crashed"
    /\ \E i \in ScanIDs :
        /\ scans[i].pc = "walk"
        /\ scans[i].todo = <<>>
        /\ scans' = [scans EXCEPT ![i].pc = "done"]
        /\ scanningDirs' = IF scanningDirs.made
                           THEN [scanningDirs EXCEPT !.roots = @ \ {scans[i].root}]
                           ELSE scanningDirs
    /\ UNCHANGED <<clock, fs, phase, watchSets, probe, notified, schemaVars, ingestVars,
                   storeVars, obsStoreVars, workerVars>>

\* Close: close(w.closeCh)
CloseBegin ==
    /\ phase \in {"running", "done"}
    /\ phase' = "closing"
    /\ UNCHANGED <<clock, fs, ingestVars, storeVars, obsStoreVars, cfgVars, workerVars>>

\* Close after scanWg.Wait(): stops the timers of the map, drops the maps
CloseFinish ==
    /\ phase = "closing"
    /\ \A i \in ScanIDs : scans[i].pc \notin {"start", "walk", "send"}
    /\ phase' = "closed"
    /\ armed' = [p \in Paths |->
                    IF timers[p] # NoTimer THEN RemoveFirst(armed[p], timers[p]) ELSE armed[p]]
    /\ timers' = [p \in Paths |-> NoTimer]
    /\ pendingRenames' = [p \in Paths |-> NoTime]
    /\ scanningDirs' = [made |-> FALSE, roots |-> {}]
    /\ UNCHANGED <<clock, fs, watchSets, probe, notified, schemaVars, scans, callbacks, sending, sweeps, saveCh,
                   nextJob, events, handled, burst, storeVars, obsStoreVars, workerVars>>

InitScan ==
    /\ EmptyStore
    /\ fs = ScanFS
    /\ phase = "running"
    /\ watchSets = runtimes(WatchSets)
    /\ probe = NoProbe
    /\ notified = <<>>
    /\ NoScans
    /\ CurrentSchema
    /\ IdleWatcher
    /\ IdleWorker

NextScan ==
    \/ HandleCreateDir
    \/ ScanStart
    \/ ScanVisit
    \/ ScanFinish
    \/ CloseBegin
    \/ CloseFinish

SpecScan == InitScan /\ [][NextScan]_vars

----------------------------------------------------------------------------
\* Shutdown with scans running: main closes done and then calls Close, the
\* worker drains the queue and returns, Close waits for the scans

\* The callback of the walk has passed its test of closeCh and is in
\* "w.saveCh <- job" of takeSnapshot with the queue full
ScanBlock ==
    /\ \E i \in ScanIDs :
        /\ scans[i].pc = "walk"
        /\ scans[i].todo # <<>>
        /\ ~CloseChClosed
        /\ LET path == Head(scans[i].todo)
           IN  /\ fs[path].kind = "file"
               /\ shouldTrack(path)
               /\ Capture(path) # {}
        /\ Len(saveCh) >= QueueCap
        /\ scans' = [scans EXCEPT ![i].pc = "send"]
    /\ UNCHANGED <<clock, fs, phase, watchSets, probe, notified, schemaVars, scanningDirs, ingestVars,
                   storeVars, obsStoreVars, workerVars>>

\* The send of a callback that waited goes through, and the walk goes on
ScanSend ==
    /\ \E i \in ScanIDs :
        /\ scans[i].pc = "send"
        /\ LET path == Head(scans[i].todo)
           IN  /\ \E job \in Capture(path) : Send(job)
               /\ nextJob' = nextJob + 1
               /\ scans' = [scans EXCEPT ![i].pc = "walk", ![i].todo = Tail(@),
                                         ![i].called = @ \cup {path}]
    /\ UNCHANGED <<clock, fs, phase, watchSets, probe, notified, schemaVars, scanningDirs, timers, armed, callbacks,
                   sending, pendingRenames, sweeps, events, handled, burst,
                   storeVars, obsStoreVars, workerVars>>

\* Create of a directory, for as many scans as it takes to fill the queue and
\* to leave one send waiting (a scan queues two jobs at most)
ScanRequest ==
    /\ \E i \in ScanIDs : 2 * i <= QueueCap + 2 /\ scans[i].pc = "none"
    /\ HandleCreateDir

\* main: w.Close() after close(done)
CloseCall == phase = "done" /\ CloseBegin

NextClose ==
    \/ ScanRequest
    \/ ScanStart
    \/ ScanVisit
    \/ ScanBlock
    \/ ScanSend
    \/ ScanFinish
    \/ Shutdown
    \/ CloseCall
    \/ CloseFinish
    \/ WorkerReceive
    \/ WorkerDone
    \/ SaveItemReturn

\* every goroutine that can take a step takes one: the scans, the worker,
\* and main inside Close
FairClose ==
    /\ WF_vars(ScanStart)
    /\ WF_vars(ScanVisit)
    /\ WF_vars(ScanSend)
    /\ WF_vars(ScanFinish)
    /\ WF_vars(CloseFinish)
    /\ WF_vars(WorkerReceive)
    /\ WF_vars(WorkerDone)
    /\ WF_vars(SaveItemReturn)

SpecClose == InitScan /\ [][NextClose]_vars /\ FairClose

----------------------------------------------------------------------------
\* Opening a database: New on a legacy or a current database

\* rows a legacy database can hold (createOldSchemaDB): two files; snapshots of
\* them, two of one file, two of equal content and time, and one whose file
\* does not exist
LegacyFiles ==
    {[id |-> 1, path |-> PathA, created |-> 0, updated |-> 1],
     [id |-> 2, path |-> PathB, created |-> 1, updated |-> 1]}

LegacySnapshot(id, fileID, content, t) ==
    [id |-> id, file_id |-> fileID, content |-> EncodeAll(content), size |-> Len(content),
     hash |-> sha256sum(content), timestamp |-> t]

LegacySnapshots ==
    {LegacySnapshot(1, 1, TextX, 0), LegacySnapshot(2, 1, TextY, 1),
     LegacySnapshot(3, 2, TextX, 0), LegacySnapshot(4, 3, TextY, 1)}

\* the tables and the schema as they are
StoreImage == [files |-> files, snapshots |-> snapshots, renames |-> renames, idType |-> idType]

\* main calls db.New on the database file
OpenStore(faults) ==
    /\ opening.n < MaxOpens
    /\ \E o \in New(CurrentTx, idType, faults) :
        /\ Commit(o.tx)
        /\ idType' = o.idType
        /\ opening' = [n |-> opening.n + 1, before |-> StoreImage, err |-> o.err]
    /\ UNCHANGED <<clock, obsStoreVars, envVars, watchSets, probe, notified, scanVars,
                   ingestVars, workerVars>>

\* a database file made by an earlier version or by this one, never opened
InitMigrate ==
    /\ idType \in {"INTEGER", "TEXT"}
    /\ files \in SUBSET LegacyFiles
    /\ snapshots \in SUBSET LegacySnapshots
    /\ idType = "TEXT" => \A s \in snapshots : \E f \in files : f.id = s.file_id
    /\ renames = {}
    /\ nextID = IF idType = "TEXT" THEN MaxID + 1 ELSE 1
    /\ opening = NotOpened
    /\ clock = 0
    /\ lastCall = NoCall
    /\ prevSave = [p \in StorePaths |-> NoSave]
    /\ written = {}
    /\ fs = [p \in Paths |-> [kind |-> "none", data |-> <<>>]]
    /\ phase = "running"
    /\ watchSets = runtimes(WatchSets)
    /\ probe = NoProbe
    /\ notified = <<>>
    /\ NoScans
    /\ IdleWatcher
    /\ IdleWorker

NextMigrate == OpenStore(Faults)

SpecMigrate == InitMigrate /\ [][NextMigrate]_vars

FileAt(p) == CHOOSE f \in files : f.path = p

Rows(p) == IF \E f \in files : f.path = p THEN SnapshotsOf(CurrentTx, FileAt(p).id) ELSE {}

LastItemOf(call, i) == \A j \in (i + 1)..Len(call) : call[j].filePath # call[i].filePath

\* C2 (as claimed): a save that repeats the content of the save before it on
\* the same path, and meets no engine error, is reported saved=false, so the
\* content is stored once.
C2_DuplicateSuppressed ==
    \A i \in 1..Len(lastCall.call) :
        LET it == lastCall.call[i]
        IN  (it.repeat /\ it.err = NoErr) => ~it.saved

\* C3 (as claimed): after a save with cap N > 0 the file holds at most N
\* snapshots, they are the most recently saved ones (the one just saved is the
\* newest, and none is older than a removed one); a save with cap 0 removes none.
C3_RetentionKeepsNewest ==
    LET call == lastCall.call IN
    /\ \A i \in 1..Len(call) :
        (call[i].saved /\ call[i].maxSnapshots > 0 /\ LastItemOf(call, i)) =>
            LET rows == Rows(call[i].filePath) IN
            /\ Cardinality(rows) <= call[i].maxSnapshots
            /\ \E r \in rows : /\ r.hash = sha256sum(call[i].content)
                                /\ \A q \in rows : q.id <= r.id
            /\ \A r \in rows, d \in lastCall.removed : d.file_id = r.file_id => d.id < r.id
    /\ \A d \in lastCall.removed :
        \E i \in 1..Len(call) :
            /\ call[i].maxSnapshots > 0 /\ call[i].saved
            /\ \E f \in files : f.path = call[i].filePath /\ f.id = d.file_id

----------------------------------------------------------------------------
\* Properties of the capture pipeline

Last(seq) == seq[Len(seq)]

LogCount(kind, id) == Cardinality({k \in 1..Len(log) : log[k].kind = kind /\ log[k].id = id})

\* the worker is still inside the save loop of a batch that holds the job
InSaveLoop(id) ==
    /\ wPc \in {"saving", "sleeping"}
    /\ \E i \in 1..Len(wSnapshots) : wSnapshots[i].id = id

\* C1 (as claimed): in the latest burst of save requests for a path at most one
\* timer has fired, the timer that fired is the one the last request of the
\* burst set (so the capture is taken D after that request, from the file as it
\* is then), and once D has passed since the last request and no timer is due,
\* a timer has fired.
C1_DebounceCollapse ==
    \A p \in Paths :
        LET b == burst[p]
        IN  /\ Len(b.fired) <= 1
            /\ \A i \in 1..Len(b.fired) : b.fired[i] = b.last
            /\ (b.last # NoTime /\ clock >= b.last + Debounce(p) /\ ~TimersDue) => Len(b.fired) >= 1

\* the entries of pendingRenames that are not older than renameTimeout and
\* whose source path is trackable
FreshTrackable ==
    {q \in Paths : pendingRenames[q] # NoTime /\ clock - pendingRenames[q] <= renameTimeout
                   /\ shouldTrack(q)}

C5_NotificationComplete ==
    \A j \in committed : ~InSaveLoop(j) => LogCount("OnSnapshot", j) = 1

C7_PermanentErrorOriginal ==
    \A j \in JobIDs : \A k \in 1..Len(attempts[j]) :
        LET a == attempts[j][k]
        IN  (~a.rename /\ a.err # NoErr /\ a.err # ErrLocked) =>
                k = Len(attempts[j]) /\ LogCount("OnSnapshot", j) = 0

\* C7 (amended): a save job gets no further store call after a call in which
\* no result was "database is locked" (no item's result with the batch saver,
\* the item's result with the single saver); a job whose last call returned an
\* error for it is logged as failed once and not notified when the worker leaves
\* the save loop; and the worker returns only on shutdown.
C7_PermanentError ==
    /\ \A j \in JobIDs : \A k \in 1..Len(attempts[j]) :
        LET a == attempts[j][k]
        IN  (~a.rename /\ ~a.locked) => k = Len(attempts[j])
    /\ \A j \in JobIDs :
        (attempts[j] # <<>> /\ ~Last(attempts[j]).rename /\ Last(attempts[j]).err # NoErr
         /\ ~InSaveLoop(j)) =>
            LogCount("OnSnapshot", j) = 0 /\ LogCount("failed", j) = 1
    /\ wPc = "exited" => wFinal /\ phase # "running"

\* C7 witness: a save job was dropped after a single call that returned a
\* permanent error, and the worker then made a store call for a later job.
C7_Witness ==
    \E j, l \in JobIDs :
        /\ j < l
        /\ Len(attempts[j]) = 1 /\ ~attempts[j][1].rename /\ attempts[j][1].err = ErrOther
        /\ LogCount("failed", j) = 1
        /\ attempts[l] # <<>>
        /\ \A i \in 1..Len(wSnapshots) : wSnapshots[i].id # j

\* C8 (as claimed): at most one goroutine is inside a store write call, and no
\* job is on the queue once the worker has returned.
C8_SingleWriter ==
    /\ Cardinality(writers) <= 1
    /\ wPc = "exited" => saveCh = <<>>

\* C9 (as claimed): a rename call for an old path without a row in files, in
\* which the engine raised no error, returns an empty id and no error, and the
\* job is not logged as failed and not notified.
C9_UntrackedRename ==
    \A j \in JobIDs : \A k \in 1..Len(attempts[j]) :
        LET a == attempts[j][k]
        IN  (a.rename /\ a.untracked /\ a.err \notin Faults) =>
                /\ a.err = NoErr
                /\ ~a.saved
                /\ LogCount("failed", j) = 0
                /\ LogCount("OnRename", j) = 0

----------------------------------------------------------------------------
\* Shutdown of the worker

\* the numbers of the jobs of the batch the worker is processing
BatchIDs ==
    {wSnapshots[i].id : i \in 1..Len(wSnapshots)} \cup {wRenames[i].id : i \in 1..Len(wRenames)}

\* C11: the jobs that were on the queue when the worker took the shutdown
\* branch are the batch it then processes, and when the worker has returned
\* each of them has had a store call.
C11_ShutdownDrain ==
    /\ (wFinal /\ wPc # "exited") => drained = BatchIDs
    /\ wPc = "exited" => \A j \in drained : attempts[j] # <<>>

\* C11 witness: the worker has returned after a final batch of two jobs.
C11_Witness ==
    /\ wPc = "exited"
    /\ Cardinality(drained) = 2
    /\ \A j \in drained : attempts[j] # <<>>

----------------------------------------------------------------------------
\* Properties of the filter and of the capture procedure

\* the directories and the name that make up a path
Elements(str) == SelectSeq(Split(str), LAMBDA e : e # <<>>)

\* root is P or a directory above P
Covers(root, P) ==
    LET r == Elements(root)
        q == Elements(P)
    IN  Len(r) <= Len(q) /\ SubSeq(q, 1, Len(r)) = r

\* the group that owns the longest root covering P, 0 when no root covers P
GroupOf(P) ==
    LET cov == {m \in UNION {{<<i, d>> : d \in watchSets[i].dirs} : i \in DOMAIN watchSets} :
                    Covers(m[2], P)}
        longest == {m \in cov : \A o \in cov : Len(Elements(o[2])) <= Len(Elements(m[2]))}
    IN  IF cov = {} THEN 0
        ELSE (CHOOSE m \in longest : \A o \in longest : m[1] <= o[1])[1]

\* C12: a call of takeSnapshot for P queues one save job, for P and with the
\* content of the file, when P has an owning group, the file exists and can be
\* read, its size is above 0 and at most the group's maximum, and no zero byte
\* is among its first 8192 bytes; otherwise it queues nothing.
C12_CaptureEligibility ==
    probe.fn = "takeSnapshot" =>
        LET P == probe.path
            data == fs[P].data
            G == GroupOf(P)
            ok == /\ G # 0
                  /\ fs[P].kind = "file"
                  /\ 0 < Len(data) /\ Len(data) <= watchSets[G].maxFileSize
                  /\ \A i \in 1..Min(Len(data), 8192) : data[i] # 0
        IN  IF ok
            THEN /\ probe.result = 1
                 /\ saveCh # <<>>
                 /\ LET job == saveCh[Len(saveCh)]
                    IN  ~job.rename /\ job.filePath = P /\ job.content = data
            ELSE probe.result = 0

\* C12 witness: a file whose size is exactly the maximum of its group was captured.
C12_Witness ==
    /\ probe.fn = "takeSnapshot"
    /\ probe.result = 1
    /\ Len(fs[probe.path].data) = watchSets[GroupOf(probe.path)].maxFileSize

\* C14: findWatchSet(P) is the group that owns the longest root that is P or a
\* directory above P, and nil when no root covers P.
C14_GroupSelection ==
    probe.fn = "findWatchSet" => probe.result = GroupOf(probe.path)

\* C14 witness: with a parent root and a child root nested in it, a file under
\* the child was given to the child's group.
C14_Witness ==
    /\ probe.fn = "findWatchSet"
    /\ probe.result # 0
    /\ \E i \in DOMAIN watchSets, d \in watchSets[probe.result].dirs :
        /\ i # probe.result
        /\ \E e \in watchSets[i].dirs :
            Covers(e, probe.path) /\ Covers(d, probe.path) /\ Covers(e, d) /\ e # d

\* C15: shouldTrack(P) holds exactly when P has an owning group, the extension
\* of P is in the group's allow-list if the list is not empty, and none of the
\* group's exclude patterns matches P.
C15_ShouldTrack ==
    probe.fn = "shouldTrack" =>
        LET P == probe.path
            G == GroupOf(P)
        IN  probe.result <=>
                /\ G # 0
                /\ (watchSets[G].extSet # {} => Ext(P) \in watchSets[G].extSet)
                /\ ~isExcludedBy(P, watchSets[G].excludePatterns)

\* C15 witness: a path is tracked although another group, whose root also
\* covers it, excludes it or does not list its extension.
C15_Witness ==
    /\ probe.fn = "shouldTrack"
    /\ probe.result
    /\ \E i \in DOMAIN watchSets :
        /\ i # GroupOf(probe.path)
        /\ \E d \in watchSets[i].dirs : Covers(d, probe.path)
        /\ \/ isExcludedBy(probe.path, watchSets[i].excludePatterns)
           \/ watchSets[i].extSet # {} /\ Ext(probe.path) \notin watchSets[i].extSet

\* C16: isBinary(b) holds exactly when a zero byte is at one of the offsets
\* 0 .. min(len(b), 8192) - 1 of b.
C16_LooksBinary ==
    probe.fn = "isBinary" =>
        LET b == fs[probe.path].data
        IN  probe.result <=> \E k \in 0..(Min(Len(b), 8192) - 1) : b[k + 1] = 0

\* C16 witness: a file whose only zero byte is at offset 8191 was classified binary.
C16_Witness ==
    /\ probe.fn = "isBinary"
    /\ probe.result
    /\ LET b == fs[probe.path].data
       IN  Len(b) > 8191 /\ b[8191 + 1] = 0 /\ \A k \in 0..8190 : b[k + 1] # 0

\* the save jobs that wait to be queued, are queued, or are in the worker's batch
SaveJobs ==
    {j \in sending : ~j.rename}
    \cup {saveCh[i] : i \in {k \in 1..Len(saveCh) : ~saveCh[k].rename}}
    \cup {wSnapshots[i] : i \in 1..Len(wSnapshots)}

C17_ContentRoundTrip ==
    \A s \in snapshots :
        \E w \in written :
            /\ w.id = s.id
            /\ LET got == GetSnapshot(CurrentTx, s.id)
               IN  /\ got.err = NoErr
                   /\ got.Content = w.content
                   /\ got.Size = Len(w.content)
                   /\ got.Hash = sha256sum(w.content)

\* C17 witness: a snapshot inserted by an earlier call is read back after the
\* latest call trimmed an older snapshot of the same file.
C17_Witness ==
    \E s \in snapshots : \E t \in lastCall.removed :
        /\ s.file_id = t.file_id
        /\ \E u \in snapshots : u.file_id = s.file_id /\ u.id > s.id
        /\ GetSnapshot(CurrentTx, s.id).Content \in StoreContents

\* C18: every snapshot references an existing file and every rename references
\* existing files as source and as destination; the rows DeleteFile removed
\* with a file are all the snapshots and renames that mentioned it; and a
\* rename's destination is the one file at its new path.
C18_ReferentialIntegrity ==
    /\ \A s \in snapshots : \E f \in files : f.id = s.file_id
    /\ \A r \in renames :
        /\ \E f \in files : f.id = r.old_file_id
        /\ \E f \in files : f.id = r.new_file_id
        /\ \A f \in files : f.path = r.new_path => f.id = r.new_file_id
    /\ \A f \in lastCall.deleted.files :
        /\ \A s \in snapshots : s.file_id # f.id
        /\ \A r \in renames : r.old_file_id # f.id /\ r.new_file_id # f.id

\* C18 witness: a file was deleted together with a snapshot of it and a rename
\* to a file that had been saved before the rename, and that file and its
\* snapshot remain.
C18_Witness ==
    /\ lastCall.deleted.files # {}
    /\ lastCall.deleted.snapshots # {}
    /\ \E r \in lastCall.deleted.renames : \E s \in snapshots :
        /\ s.file_id = r.new_file_id
        /\ s.id < r.id
        /\ \E f \in files : f.id = s.file_id

\* the ids under which the store knows a path: of its files rows, of the files
\* its snapshots belong to, and of the renames from it or to it
IDsOfPath(p) ==
    {f.id : f \in {g \in files : g.path = p}}
    \cup {s.file_id : s \in {t \in snapshots : \E f \in files : f.id = t.file_id /\ f.path = p}}
    \cup {r.new_file_id : r \in {q \in renames : q.new_path = p}}
    \cup {r.old_file_id : r \in {q \in renames : q.old_path = p}}

\* C19: the store never holds two files with the same path, and the saves of a
\* path and the renames from it and to it all refer to one file.
C19_PathUniqueness ==
    /\ \A f \in files : \A g \in files : f.path = g.path => f = g
    /\ \A p \in StorePaths : Cardinality(IDsOfPath(p)) <= 1

\* C19 witness: the destination of a rename, created by the rename, was saved
\* afterwards and its snapshot belongs to the file the rename created.
C19_Witness ==
    \E r \in renames : \E s \in snapshots : \E t \in snapshots :
        /\ s.file_id = r.new_file_id
        /\ s.id > r.id
        /\ t.file_id = r.old_file_id
        /\ t.id < r.id

\* the jobs the producers made that are at a send, in the queue, in the batch
\* of the worker, or have had a store call
Accounted ==
    {job.id : job \in sending}
    \cup {saveCh[i].id : i \in 1..Len(saveCh)}
    \cup BatchIDs
    \cup {j \in JobIDs : attempts[j] # <<>>}

\* C20: saveCh never holds more than QueueCap jobs; every job a producer made
\* is at its send, in the queue or with the worker; a producer at its send can
\* complete it whenever the queue has room; and a job leaves its send only by
\* being appended to the queue.
C20_Backpressure ==
    /\ [](/\ Len(saveCh) <= QueueCap
          /\ \A j \in 1..(nextJob - 1) : j \in Accounted
          /\ (sending # {} /\ Len(saveCh) < QueueCap) => ENABLED CompleteSend)
    /\ [][\A job \in sending : job \in sending' \/ saveCh' = Append(saveCh, job)]_vars

\* C20 witness: the producer that came last found the queue full, and its job
\* is in the queue now.
C20_Witness ==
    /\ probe.fn = "send"
    /\ probe.result.full
    /\ \E i \in 1..Len(saveCh) : saveCh[i].id = probe.result.id

----------------------------------------------------------------------------
\* Order of notifications and of store calls

\* the place of the OnSnapshot entry of a job in the log of the worker
LogPlace(j) == CHOOSE i \in 1..Len(log) : log[i].kind = "OnSnapshot" /\ log[i].id = j

\* C21 (as claimed): every save notification the notifier has received is for
\* a committed snapshot, and the notifications were received in the order in
\* which the worker committed and announced their snapshots.
C21_NotificationOrder ==
    /\ \A k \in 1..Len(notified) : notified[k] \in committed
    /\ \A k \in 1..Len(notified) : \A l \in (k + 1)..Len(notified) :
            LogPlace(notified[k]) < LogPlace(notified[l])

\* C23 (as claimed): the jobs reach the store in the order in which they were
\* queued: a job has had a store call only if every job queued before it has
\* had one.  (The producers of this specification queue a job when they make
\* it, so the ids of the jobs are in queue order.)
C23_BatchOrder ==
    \A j \in JobIDs : \A l \in JobIDs :
        (j < l /\ attempts[l] # <<>>) => attempts[j] # <<>>

\* every job made has been written by the worker
AllProcessed ==
    /\ sending = {}
    /\ saveCh = <<>>
    /\ wPc = "idle"

\* the newest snapshots of a path
NewestOf(p) ==
    {s \in snapshots : /\ \E f \in files : f.id = s.file_id /\ f.path = p
                       /\ \A t \in snapshots : t.file_id = s.file_id => t.id <= s.id}

\* C22: once every queued job is processed, the newest snapshot of the path
\* that was read last holds the content of that read.
C22_SameFileOrdering ==
    (AllProcessed /\ probe.fn = "send" /\ probe.result.read # <<>>) =>
        \A s \in NewestOf(probe.path) : DecodeAll(s.content) = probe.result.read[1]

\* C27: every list GetSnapshots returns for a file holds all the snapshots of
\* the file, by timestamp descending and, for equal timestamps, by identifier
\* descending.
C27_GetSnapshotsOrder ==
    \A f \in files : \A q \in GetSnapshots(CurrentTx, f.id) :
        /\ {q[i].ID : i \in 1..Len(q)} = {s.id : s \in SnapshotsOf(CurrentTx, f.id)}
        /\ \A i \in 1..Len(q) : \A j \in (i + 1)..Len(q) :
              \/ q[i].Timestamp > q[j].Timestamp
              \/ q[i].Timestamp = q[j].Timestamp /\ q[i].ID > q[j].ID

\* the entries of pendingRenames that are older than renameTimeout
OlderThanTimeout ==
    {q \in Paths : pendingRenames[q] # NoTime /\ clock - pendingRenames[q] > renameTimeout}

\* a step that handles a Create event
CreateStep == events' = events + 1 /\ handled'.op = "Create"

\* the step does to the timers what the creation of a file does when no
\* rename is pending
OrdinaryCreation ==
    LET name == handled'.name
    IN  /\ sending' = sending
        /\ nextJob' = nextJob
        /\ IF shouldTrack(name)
           THEN /\ timers'[name] = clock + Debounce(name)
                /\ \E i \in 1..Len(armed'[name]) : armed'[name][i] = clock + Debounce(name)
           ELSE timers' = timers /\ armed' = armed

C29_OldestRenameFirst ==
    [][CreateStep =>
        \A job \in sending' \ sending :
            job.rename => \A q \in FreshTrackable :
                              pendingRenames[job.oldPath] <= pendingRenames[q]]_vars

\* the scans that walk
Walking == {i \in ScanIDs : scans[i].pc = "walk"}

\* C24: no two scans of one root walk at the same time, and the registered
\* roots are those of the walking scans; a scan that was refused has captured
\* nothing; and a scan request is refused, without a job being queued, when
\* Close has returned or a scan of its root walks, and starts its walk
\* otherwise.
C24_ScanExclusion ==
    /\ [](/\ \A i \in Walking : \A j \in Walking : scans[i].root = scans[j].root => i = j
          /\ scanningDirs.roots = {scans[i].root : i \in Walking}
          /\ \A i \in ScanIDs : scans[i].pc = "refused" => scans[i].called = {})
    /\ [][\A i \in ScanIDs :
            (scans[i].pc = "start" /\ scans'[i].pc # "start") =>
                IF phase = "closed" \/ \E j \in Walking : scans[j].root = scans[i].root
                THEN scans'[i].pc = "refused" /\ saveCh' = saveCh
                ELSE scans'[i].pc = "walk"]_vars

\* C24 witness: while the watcher runs, one scan of a root has ended after
\* capturing files, a second request for the root was refused, and a third
\* scan of the same root walks.
C24_Witness ==
    /\ phase = "running"
    /\ \E i \in ScanIDs : \E j \in ScanIDs : \E k \in ScanIDs :
        /\ scans[i].pc = "done" /\ scans[i].called # {}
        /\ scans[j].pc = "refused" /\ scans[j].root = scans[i].root
        /\ scans[k].pc = "walk" /\ scans[k].root = scans[i].root

\* the regular files below root that shouldTrack accepts and that lie in no
\* excluded directory below root
InExpected(f, root) ==
    /\ fs[f].kind = "file"
    /\ Under(f, root)
    /\ shouldTrack(f)
    /\ \A d \in ScanEntries :
          (fs[d].kind = "dir" /\ Under(f, d) /\ Under(d, root)) => ~isExcluded(d)

Expected(root) == {f \in ScanEntries : InExpected(f, root)}

\* the file passes the checks of the size and of the content
PassesChecks(f) ==
    /\ Len(fs[f].data) \in 1..watchSets[findWatchSet(f)].maxFileSize
    /\ \A k \in 1..Len(fs[f].data) : fs[f].data[k] # 0

\* C30: a scan is started only for a directory that is not excluded and calls
\* takeSnapshot for no file outside Expected of its root; a scan that reached
\* the end of its walk has called it for every file of Expected; every queued
\* job is for a file that passes the size and binary checks; and the step that
\* calls takeSnapshot for a file leaves clock and timers as they are and, when
\* the file passes the checks, queues its job in that step.
C30_ScanCoverage ==
    /\ [](/\ \A i \in ScanIDs : scans[i].pc # "none" =>
                /\ ~isExcluded(scans[i].root)
                /\ \A f \in scans[i].called : InExpected(f, scans[i].root)
                /\ (scans[i].pc = "done" /\ ~scans[i].cut) => Expected(scans[i].root) \subseteq scans[i].called
          /\ \A k \in 1..Len(saveCh) : PassesChecks(saveCh[k].filePath))
    /\ [][\A i \in ScanIDs : \A f \in scans'[i].called \ scans[i].called :
            /\ clock' = clock /\ timers' = timers /\ armed' = armed
            /\ IF PassesChecks(f)
               THEN saveCh' = Append(saveCh, SnapshotJob(nextJob, f, fs[f].data, CapOf(f)))
               ELSE saveCh' = saveCh]_vars

\* C30 witness: a scan of the created directory reached the end of its walk;
\* it called takeSnapshot for the too large and the binary file, which left
\* no job, and for the two files whose jobs are queued, one of them in a
\* sub-directory; it did not call it for the file in the excluded directory
\* or the file of another extension.
C30_Witness ==
    \E i \in ScanIDs :
        /\ scans[i].root = DirD
        /\ scans[i].pc = "done"
        /\ ~scans[i].cut
        /\ scans[i].called = {PathDBig, PathDBin, PathDKC, PathDM}
        /\ {saveCh[k].filePath : k \in 1..Len(saveCh)} = {PathDKC, PathDM}

\* the database before the latest call of New
Before == opening.before

\* the files and snapshots of the legacy database are all there: the same
\* paths, as many files, as many snapshots for each path, none without a file
Complete ==
    /\ {f.path : f \in files} = {f.path : f \in Before.files}
    /\ Cardinality(files) = Cardinality(Before.files)
    /\ \A s \in snapshots : \E f \in files : f.id = s.file_id
    /\ \A f \in files : \A g \in Before.files :
          f.path = g.path =>
              Cardinality({s \in snapshots : s.file_id = f.id})
                  = Cardinality({s \in Before.snapshots : s.file_id = g.id})

\* C25: after New has returned for a legacy database, either files.id is TEXT
\* and every legacy file and snapshot is there, or New returned an error and
\* the legacy tables hold the rows they held; New returns no error only in
\* the first case; and New on a current database leaves every table as it was.
C25_MigrationAtomicity ==
    opening.n > 0 =>
        /\ opening.err = NoErr => idType = "TEXT"
        /\ Before.idType = "TEXT" =>
              /\ idType = "TEXT"
              /\ files = Before.files /\ snapshots = Before.snapshots /\ renames = Before.renames
        /\ Before.idType = "INTEGER" =>
              \/ idType = "TEXT" /\ Complete
              \/ /\ idType = "INTEGER"
                 /\ opening.err # NoErr
                 /\ files = Before.files /\ snapshots = Before.snapshots

\* C25 witness: New was called twice on a legacy database with files and
\* snapshots; the first call left it a legacy database, the second migrated it.
C25_Witness ==
    /\ opening.n = 2
    /\ Before.idType = "INTEGER"
    /\ Before.files # {} /\ Before.snapshots # {}
    /\ idType = "TEXT"
    /\ opening.err = NoErr

\* the file of a snapshot in given tables
OwnerPath(fileRows, s) == (CHOOSE f \in fileRows : f.id = s.file_id).path

\* C26: after New has migrated a legacy database without error, the files are
\* the legacy files with their paths, created and updated times, as many as
\* before, and the snapshots correspond one to one to the legacy snapshots,
\* each with the content, size, hash and timestamp of its legacy snapshot and
\* attached to the file that has the path of the legacy owner.
C26_MigrationPreservation ==
    (opening.n > 0 /\ opening.err = NoErr /\ Before.idType = "INTEGER") =>
        /\ {[path |-> f.path, created |-> f.created, updated |-> f.updated] : f \in files}
              = {[path |-> f.path, created |-> f.created, updated |-> f.updated] : f \in Before.files}
        /\ Cardinality(files) = Cardinality(Before.files)
        /\ Cardinality(snapshots) = Cardinality(Before.snapshots)
        /\ \E g \in [Before.snapshots -> snapshots] :
              /\ \A s \in Before.snapshots : \A t \in Before.snapshots : g[s] = g[t] => s = t
              /\ \A s \in Before.snapshots :
                    /\ g[s].content = s.content
                    /\ g[s].size = s.size
                    /\ g[s].hash = s.hash
                    /\ g[s].timestamp = s.timestamp
                    /\ OwnerPath(files, g[s]) = OwnerPath(Before.files, s)

\* C26 witness: a legacy database with two files and three snapshots, two of
\* them of equal content and time but of different files, was migrated
\* without error.
C26_Witness ==
    /\ opening.n > 0
    /\ opening.err = NoErr
    /\ Before.idType = "INTEGER"
    /\ Cardinality(files) = 2
    /\ Cardinality(snapshots) = 3
    /\ \E s \in snapshots : \E t \in snapshots :
          s.content = t.content /\ s.timestamp = t.timestamp /\ s.file_id # t.file_id

\* C39 (as claimed): a save whose content differs from the content of the
\* snapshot inserted last for its path, and that meets no error, inserts a
\* snapshot (is reported saved); so a save is suppressed only when its content
\* is that of the snapshot inserted last.
C39_RealChangeSaved ==
    \A i \in 1..Len(lastCall.call) :
        LET it == lastCall.call[i]
        IN  (it.err = NoErr /\ lastCall.commitErr = NoErr /\ it.content # it.last) => it.saved

\* C38 (as claimed): after a save that inserted a snapshot with a cap N > 0,
\* the snapshot it inserted is in the store and is the newest snapshot of the
\* file.
C38_RetentionKeepsInserted ==
    \A i \in 1..Len(lastCall.call) :
        LET it == lastCall.call[i]
        IN  (it.saved /\ it.maxSnapshots > 0 /\ LastItemOf(lastCall.call, i)) =>
                \E s \in Rows(it.filePath) :
                    /\ s.id = it.row
                    /\ \A q \in Rows(it.filePath) : q.id <= s.id

\* a save call returned in this step
SaveCallStep == lastCall'.n # lastCall.n

\* C32: a batch whose commit failed leaves the tables as they were before the
\* call, reports no item as saved, and reports every item that had succeeded
\* inside the transaction with the commit error, so that the notify loop
\* emits nothing for it.
C32_CommitFailure ==
    [][(SaveCallStep /\ lastCall'.commitErr # NoErr) =>
            /\ files' = files /\ snapshots' = snapshots /\ renames' = renames
            /\ lastCall'.removed = {}
            /\ \A i \in 1..Len(lastCall'.call) :
                LET it == lastCall'.call[i]
                IN  /\ ~it.saved
                    /\ ~ShouldNotify(it.saved, it.err)
                    /\ it.inTx => it.err = lastCall'.commitErr]_vars

\* C32 witness: the commit of a batch failed; its first item had been
\* suppressed as a duplicate and its second had succeeded in the transaction
\* with a cap of 1, which trimmed the snapshot the file had; that snapshot is
\* still there and the snapshot of the second item is not.
C32_Witness ==
    /\ lastCall.commitErr # NoErr
    /\ Len(lastCall.call) = 2
    /\ ~lastCall.call[1].saved /\ lastCall.call[1].err = NoErr
    /\ lastCall.call[2].inTx
    /\ lastCall.call[2].maxSnapshots = 1
    /\ \E s \in Rows(PathA) : DecodeAll(s.content) = TextX
    /\ \A s \in Rows(PathA) : DecodeAll(s.content) # TextY

\* the save was suppressed as a duplicate
Suppressed(it) == ~it.saved /\ it.err = NoErr

\* C33: a call all of whose saves are suppressed as duplicates leaves the
\* tables as they were (no snapshot inserted or deleted, updated unchanged),
\* whatever its cap; and every snapshot a call removed is of a file for which
\* an item of the call with a cap above 0 inserted a snapshot.
C33_DuplicateChangesNothing ==
    /\ [](\A d \in lastCall.removed :
            \E i \in 1..Len(lastCall.call) :
                LET it == lastCall.call[i]
                IN  /\ it.row # NoID /\ it.saved /\ it.maxSnapshots > 0
                    /\ \E f \in files : f.path = it.filePath /\ f.id = d.file_id)
    /\ [][(SaveCallStep /\ \A i \in 1..Len(lastCall'.call) : Suppressed(lastCall'.call[i])) =>
            files' = files /\ snapshots' = snapshots /\ renames' = renames]_vars

\* C33 witness: a save with cap 1 was suppressed as a duplicate in a later
\* second than the file's last change, and the file still has two snapshots
\* and the updated time of that change.
C33_Witness ==
    /\ Len(lastCall.call) = 1
    /\ Suppressed(lastCall.call[1])
    /\ lastCall.call[1].maxSnapshots = 1
    /\ Cardinality(Rows(PathA)) = 2
    /\ FileAt(PathA).updated < Unix(clock)

\* C40 (as claimed): every files row and every snapshot that a batch added or
\* changed belongs to an item that is reported saved without an error, and the
\* snapshot of every item reported saved is in the store.
C40_FailedItemLeavesNothing ==
    [][SaveCallStep =>
        LET call == lastCall'.call
            good(i) == call[i].saved /\ call[i].err = NoErr
        IN  /\ \A f \in files' \ files : \E i \in 1..Len(call) : good(i) /\ call[i].filePath = f.path
            /\ \A s \in snapshots' \ snapshots : \E i \in 1..Len(call) : good(i) /\ call[i].row = s.id
            /\ \A i \in 1..Len(call) :
                (good(i) /\ LastItemOf(call, i)) => \E s \in snapshots' : s.id = call[i].row]_vars

\* C34 (as claimed): at most one debounce timer is armed for a path, and the
\* entry of the path in w.timers refers to the timer that is armed.
C34_OneArmedTimer ==
    \A p \in Paths :
        /\ Len(armed[p]) <= 1
        /\ armed[p] # <<>> => timers[p] = armed[p][1]

\* the greatest size of a file of the group that owns the path
MaxSizeOf(p) == watchSets[findWatchSet(p)].maxFileSize

\* C37 (as claimed): every save job on the queue carries content that is not
\* empty and not longer than the maximum size of the owning group, and so
\* does every stored snapshot.
C37_QueuedContentWithinLimits ==
    /\ \A k \in 1..Len(saveCh) :
            ~saveCh[k].rename => Len(saveCh[k].content) \in 1..MaxSizeOf(saveCh[k].filePath)
    /\ \A s \in snapshots : \A f \in files :
            f.id = s.file_id => s.size \in 1..MaxSizeOf(f.path)

\* C35 (as claimed): handling an event during or after Close never faults,
\* and once Close has returned no timer is in the map.
C35_NoFaultOnLateEvents ==
    /\ phase # "crashed"
    /\ phase = "closed" => \A p \in Paths : timers[p] = NoTimer

\* C31 (as claimed): once done is closed and Close has been called, every
\* scan ends and Close returns.
C31_ShutdownTerminates == (phase = "closing") ~> (phase = "closed")

\* job j is on the queue
Queued(j) == \E k \in 1..Len(saveCh) : saveCh[k].id = j

\* C36 (as claimed): every job on the queue (the producers number their jobs
\* from 1 to MaxJobs) is eventually taken by the worker and handed to the
\* store, also a job queued after done was closed.
C36_NoJobStranded == \A j \in 1..MaxJobs : Queued(j) ~> (attempts[j] # <<>>)

====
